---- MODULE Spec2Model ----
(***************************************************************************)
(* Model of the minutes daemon: the command consumer (service.rs           *)
(* command_handler and its handle_* functions), the per-connection         *)
(* handlers (server.rs handle_connection), the background transcription    *)
(* worker (service.rs transcription_worker / run_transcription) and the    *)
(* storage rows they share.                                                *)
(*                                                                         *)
(* The runtime is tokio's multi-thread runtime (main.rs #[tokio::main]),   *)
(* so the consumer, the worker, the connection handlers and the spawned    *)
(* progress tasks run in parallel; every access to the shared DaemonState  *)
(* (an RwLock) and to storage is its own step.  A handle_* function takes  *)
(* the write lock on its first line and has no further await, so its body  *)
(* is one step.                                                            *)
(***************************************************************************)
EXTENDS Integers, Sequences, FiniteSets, Bags, TLC

(* ------------------------------ bounds -------------------------------- *)
NumConns == 2
MaxRequests == 2
MaxIds == 2
MaxTitles == 1
MaxClock == 2
MaxWindows == 1

\* clock ticks per second: Instant / Utc::now() are read in ticks and
\* Duration::as_secs() truncates to whole seconds.
TicksPerSec == 2

Conns == 1..NumConns
Titles == 1..MaxTitles

\* Session ids (Uuid::new_v4().to_string()) are strings; they are modelled as
\* digit sequences so that find_recording_by_prefix can match prefixes.
IdPool == << <<1, 1>>, <<1, 2>>, <<2, 1>>, <<2, 2>> >>
Ids == {IdPool[i] : i \in 1..MaxIds}
NoId == <<>>

IsPrefix(p, s) == Len(p) <= Len(s) /\ SubSeq(s, 1, Len(p)) = p
Prefixes == {SubSeq(i, 1, n) : i \in Ids, n \in 1..2}

VARIABLES
    daemonState,      \* state.rs DaemonState behind the SharedState RwLock
    audio_capture,    \* command_handler's local Option<Box<dyn AudioCapture>>
    capturesRunning,  \* number of started capture backends not yet stopped
    stopWarned,       \* a "Error stopping audio capture" warning was logged
    storage,          \* the recordings table, by id
    clock,            \* wall clock, in ticks
    cmdQueue,         \* the mpsc command channel
    nSent,            \* commands sent into the channel so far
    nRecv,            \* commands received by the consumer so far
    consumerPc,       \* "recv", "handling" or "exited"
    current,          \* the command the consumer is processing
    lastStarted,      \* the session started by the command processed last, if any
    conn,             \* per connection: the handler's position and is_shutdown, the
                      \* oversized length field that ended it, the invalid frames answered
    respCh,           \* per connection: the mpsc::channel(1) response channel
    workerPc,         \* position of transcription_worker
    pending,          \* the worker's list of pending recordings
    workerRec,        \* the recording the worker is transcribing
    workerResult,     \* result of run_transcription: "ok" or "err"
    progressTasks,    \* bag of spawned progress updates not yet run
    compress_to_ogg,  \* settings.audio.compress_to_ogg
    runPc,            \* position of the daemon process in service.rs run()
    exitStatus,       \* exit status of the daemon process: "none", "ok" or "error"
    pidFile,          \* what the PID file holds: "none", "stale", "other" or "daemon"
    socketFile,       \* the socket file: "none", "stale" or "daemon"
    launcherPc,       \* position of start_daemon (daemon/mod.rs)
    polls,            \* iterations of start_daemon's readiness loop so far
    pipewire,         \* the fields of one PipeWireCapture (pipewire_capture.rs)
    pw_record,        \* the two pw-record subprocesses, by role
    tracks,           \* sizes of the output file and of the temporary microphone file
    pwCall,           \* position and result of the start()/stop() call on the capture
    wpctl,            \* what `wpctl inspect` and `wpctl status -n` answer
    targets,          \* the Vec<ResolvedCaptureTarget> built so far
    wavFile,          \* the source WAV of an encode
    oggFile,          \* the OGG output: absent, or the pages written so far
    encoder,          \* position, locals and result of OggEncoder::encode(_and_cleanup)
    pipeline,         \* position and locals of TranscriptionPipeline::transcribe / merge_segments
    mixer             \* one AudioMixer, the buffers given to mix() and its result

daemonVars == <<daemonState>>
captureVars == <<audio_capture, capturesRunning, stopWarned>>
consumerVars == <<consumerPc, current, nRecv, lastStarted>>
connVars == <<conn, respCh, cmdQueue, nSent>>
workerVars == <<workerPc, pending, workerRec, workerResult, progressTasks>>
consumerAll == <<consumerPc, current, nRecv, lastStarted, cmdQueue, nSent, conn, respCh>>
processVars == <<runPc, exitStatus, pidFile, socketFile, launcherPc, polls>>
pipewireVars == <<pipewire, pw_record, tracks, pwCall>>
resolveVars == <<wpctl, targets>>
encoderVars == <<wavFile, oggFile, encoder>>
pureVars == <<pipeline, mixer>>
audioVars == <<pipewireVars, resolveVars, encoderVars, pureVars>>
daemonAll == <<daemonVars, captureVars, storage, clock, consumerAll, workerVars,
               compress_to_ogg, processVars>>
exceptPipeWire == <<daemonAll, resolveVars, encoderVars, pureVars>>
exceptResolve == <<daemonAll, pipewireVars, encoderVars, pureVars>>
exceptEncoder == <<daemonAll, pipewireVars, resolveVars, pureVars>>
vars == <<daemonState, audio_capture, capturesRunning, stopWarned,
          storage, clock, cmdQueue, nSent, nRecv, consumerPc, current,
          lastStarted, conn, respCh, workerPc, pending, workerRec, workerResult,
          progressTasks, compress_to_ogg, runPc, exitStatus, pidFile, socketFile,
          launcherPc, polls, pipewire, pw_record, tracks, pwCall, wpctl, targets,
          wavFile, oggFile, encoder, pipeline, mixer>>

(* --------------------------- data (state.rs, models.rs, ipc.rs) -------- *)
Idle == [kind |-> "Idle"]
Recording(rec, path, now) ==
    [kind |-> "Recording", recording |-> rec, audio_path |-> path,
     started_at |-> now, audio_level |-> 0]
Transcribing(id, p) == [kind |-> "Transcribing", recording_id |-> id, progress |-> p]

\* progress is a fraction num/den (f32 in the source)
Progress(n, d) == [num |-> n, den |-> d]
ProgressZero == Progress(0, 1)
ProgressOne == Progress(1, 1)

NoPath == [stem |-> NoId, ext |-> "none"]
WavPath(id) == [stem |-> id, ext |-> "wav"]
NoDuration == -1

NoRow == [state |-> "absent"]
\* Recording::new: created_at is Utc::now(), here in ticks
NewRecording(id, title, now) ==
    [id |-> id, title |-> title, audio_path |-> NoPath, duration_secs |-> NoDuration,
     state |-> "recording", created_at |-> now]

AsSecs(ticks) == ticks \div TicksPerSec

ToStatus(st, now) ==
    CASE st.kind = "Idle" -> [status |-> "Idle"]
      [] st.kind = "Recording" ->
            [status |-> "Recording", id |-> st.recording.id, title |-> st.recording.title,
             duration_secs |-> AsSecs(now - st.started_at), audio_level |-> st.audio_level]
      [] st.kind = "Transcribing" ->
            [status |-> "Transcribing", id |-> st.recording_id, progress |-> st.progress]

StartRecordingReq(t) == [type |-> "StartRecording", title |-> t]
TranscribeReq(p) == [type |-> "Transcribe", recording_id |-> p]
SimpleReq(t) == [type |-> t]
Requests ==
    {StartRecordingReq(t) : t \in Titles} \cup {TranscribeReq(p) : p \in Prefixes}
    \cup {SimpleReq(t) : t \in {"StopRecording", "GetStatus", "Ping", "Shutdown"}}

RecordingStarted(id) == [type |-> "RecordingStarted", id |-> id]
RecordingStopped(id, d) == [type |-> "RecordingStopped", id |-> id, duration_secs |-> d]
StatusResp(s) == [type |-> "Status", status |-> s]
Pong == [type |-> "Pong"]
OkResp == [type |-> "Ok"]
Error(m) == [type |-> "Error", message |-> m]
NoRequest == [type |-> "None"]

NoCommand == [seq |-> 0, conn |-> 0, req |-> NoRequest]
NoCapture == [held |-> FALSE, path |-> NoPath]
NoRecording == [id |-> NoId]
NoSession == [id |-> NoId, title |-> 0]
\* a connection no client has made yet (the listener is not bound)
NoConnection ==
    [pc |-> "none", is_shutdown |-> FALSE, len |-> 0, invalid |-> 0]

(* ------------------------------- Init --------------------------------- *)
\* The database file outlives the daemon: at start it is empty, or holds a
\* recording that an earlier run stopped and left waiting for transcription.
EarlierRecording ==
    [id |-> IdPool[1], title |-> 1, audio_path |-> WavPath(IdPool[1]), duration_secs |-> 0,
     state |-> "pending", created_at |-> 0, rowid |-> 1]
InitStorages ==
    {[i \in Ids |-> NoRow],
     [i \in Ids |-> IF i = IdPool[1] THEN EarlierRecording ELSE NoRow]}

(* ------------------ audio data (pipewire_capture.rs, encoder.rs) -------- *)
None == "None"
Recorders == {"system", "microphone"}

\* a path that does not exist has no size
NoFile == -1
\* size of a WAV file that holds the header and no sample
WavHeader == 44
\* pw-record is started with --format s16
SampleBytes == 2
\* samples a recorder writes at most
MaxTrackSamples == 2

NoProcess == [state |-> "none", signal |-> "none", path |-> None]
NoTracks == [output |-> NoFile, mic |-> NoFile, mixed |-> FALSE]
NoCall == [pc |-> "unused", result |-> "none"]

\* PipeWireCapture::new, the struct literal
PipeWireCapture_new(sys, mic) ==
    [capture_system |-> sys, capture_microphone |-> mic, recording |-> FALSE,
     system_process |-> None, mic_process |-> None, output_path |-> None,
     mic_path |-> None]

TargetKinds == {"System", "Microphone"}
\* Option<String> as a sequence of at most one element
NoWpctl == [k \in TargetKinds |-> [inspect |-> <<>>, nodes |-> <<>>, configured |-> <<>>]]
NoWav == [exists |-> FALSE]
NoOgg == [exists |-> FALSE, pages |-> <<>>]

InitPipeWire ==
    /\ pipewire = PipeWireCapture_new(FALSE, FALSE)
    /\ pw_record = [r \in Recorders |-> NoProcess]
    /\ tracks = NoTracks
    /\ pwCall = NoCall
InitResolve ==
    /\ wpctl = NoWpctl
    /\ targets = <<>>
InitEncoder ==
    /\ wavFile = NoWav
    /\ oggFile = NoOgg
    /\ encoder = NoCall

InitPure ==
    /\ pipeline = NoCall
    /\ mixer = NoCall

\* nothing of the audio backends is in use
InitAudio == InitPipeWire /\ InitResolve /\ InitEncoder /\ InitPure

InitDaemon ==
    /\ daemonState = Idle
    /\ audio_capture = NoCapture
    /\ capturesRunning = 0
    /\ stopWarned = FALSE
    /\ storage \in InitStorages
    /\ clock = 0
    /\ cmdQueue = <<>>
    /\ nSent = 0
    /\ nRecv = 0
    /\ consumerPc = "recv"
    /\ current = NoCommand
    /\ lastStarted = NoSession
    /\ conn = [c \in Conns |-> NoConnection]
    /\ respCh = [c \in Conns |-> <<>>]
    /\ workerPc = "unspawned"
    /\ pending = <<>>
    /\ workerRec = NoRecording
    /\ workerResult = "ok"
    /\ progressTasks = EmptyBag
    /\ compress_to_ogg \in BOOLEAN
    /\ exitStatus = "none"
    /\ polls = 0

\* The daemon is run in the foreground (`daemon start --foreground`): run() is
\* about to be entered, and files of an earlier daemon may be left on disk.
Init ==
    /\ InitDaemon
    /\ InitAudio
    /\ runPc = "start"
    /\ pidFile \in {"none", "stale"}
    /\ socketFile \in {"none", "stale"}
    /\ launcherPc = "foreground"

\* Time is read only by Recording::new (created_at), by handle_start_recording
\* (started_at) and through started_at.elapsed(); time that passes while
\* nothing is recorded only shifts later timestamps, so the clock advances
\* while a recording is active.
Tick ==
    /\ clock < MaxClock
    /\ daemonState.kind = "Recording"
    /\ clock' = clock + 1
    /\ UNCHANGED <<daemonState, audio_capture, capturesRunning, stopWarned,
                   storage, cmdQueue, nSent, nRecv, consumerPc, current, lastStarted,
                   conn, respCh, workerPc, pending, workerRec, workerResult,
                   progressTasks, compress_to_ogg, audioVars,
                   processVars>>

(* ------------------------ storage (database.rs) ------------------------ *)
\* Outcome of the storage calls of one handler: Database::open fails, a
\* statement fails, or everything succeeds.
DbOutcomes == {"ok", "open_err", "op_err"}

RowExists(db, id) == db[id] # NoRow

\* the rowid SQLite gives to the next inserted row: one more than the largest
NextRowid(db) == Cardinality({i \in Ids : RowExists(db, i)}) + 1

\* created_at.timestamp(): whole seconds
Timestamp(t) == t \div TicksPerSec

\* INSERT INTO recordings: the id is the primary key; created_at is stored as
\* recording.created_at.timestamp()
insert_recording(db, rec) ==
    [db EXCEPT ![rec.id] =
        [id |-> rec.id, title |-> rec.title, audio_path |-> rec.audio_path,
         duration_secs |-> rec.duration_secs, state |-> rec.state,
         created_at |-> Timestamp(rec.created_at), rowid |-> NextRowid(db)]]

\* UPDATE recordings SET title, audio_path, duration_secs, state ... WHERE id
update_recording(db, rec) ==
    IF RowExists(db, rec.id)
    THEN [db EXCEPT ![rec.id] = [@ EXCEPT !.title = rec.title,
                                           !.audio_path = rec.audio_path,
                                           !.duration_secs = rec.duration_secs,
                                           !.state = rec.state]]
    ELSE db

\* UPDATE recordings SET state = ?2 WHERE id = ?1
update_recording_state(db, id, st) ==
    IF RowExists(db, id) THEN [db EXCEPT ![id].state = st] ELSE db

\* SELECT ... WHERE id LIKE 'prefix%' LIMIT 1: the rows that may be returned
find_recording_by_prefix(db, prefix) ==
    {i \in Ids : RowExists(db, i) /\ IsPrefix(prefix, i)}

\* SELECT ... WHERE state = 'pending' ORDER BY created_at ASC: every order
\* of the pending rows that is sorted by created_at.  Rows with the same
\* created_at come in the order of the query plan: by rowid after a sort of
\* the rows found through idx_recordings_state, by descending rowid on a
\* backward scan of idx_recordings_created_at (created_at DESC).
get_pending_recordings(db) ==
    LET P == {i \in Ids : RowExists(db, i) /\ db[i].state = "pending"}
        n == Cardinality(P)
    IN  {s \in [1..n -> P] :
            /\ \A a, b \in 1..n : a # b => s[a] # s[b]
            /\ \A a, b \in 1..n : a < b => db[s[a]].created_at <= db[s[b]].created_at}

(* ------------------- connection handler (server.rs) -------------------- *)
\* 1024 * 1024, the largest length field handle_connection accepts
MaxFrameLen == 1048576

\* length fields the clients send: a short body, a body of exactly 1 MiB and
\* one byte more than that
FrameLens == {6, MaxFrameLen, MaxFrameLen + 1}

TooLarge_Inclusive(len) == len >= MaxFrameLen

\* handle_connection, line 104
TooLarge(len) == len > MaxFrameLen

\* frames the handlers have answered with "Invalid request", over all connections
RECURSIVE InvalidFrames(_)
InvalidFrames(n) == IF n = 0 THEN 0 ELSE conn[n].invalid + InvalidFrames(n - 1)

\* frames whose body the handlers have read so far
FramesRead == nSent + InvalidFrames(NumConns)

\* the handler task of connection c is alive and at position pc
HandlerAt(c, pc) == runPc = "serving" /\ conn[c].pc = pc

\* handle_connection, lines 92-134: read one frame whose body deserializes and
\* forward the request to the command channel; the send fails once the
\* consumer has dropped the receiver, and the handler returns the error
\* (the connection is closed without a response).
handle_connection_request(c, len, req) ==
    /\ HandlerAt(c, "read")
    /\ FramesRead < MaxRequests
    /\ ~TooLarge(len)
    /\ IF consumerPc = "exited"
       THEN /\ conn' = [conn EXCEPT ![c].pc = "send_failed"]
            /\ UNCHANGED <<cmdQueue, respCh>>
       ELSE /\ cmdQueue' = Append(cmdQueue, [seq |-> nSent + 1, conn |-> c, req |-> req])
            /\ conn' = [conn EXCEPT ![c].pc = "sent",
                                    ![c].is_shutdown = (req.type = "Shutdown")]
            /\ respCh' = [respCh EXCEPT ![c] = <<>>]
    /\ nSent' = nSent + 1
    /\ UNCHANGED <<daemonVars, captureVars, storage, clock, consumerVars, workerVars,
                   compress_to_ogg, audioVars,
                   processVars>>

handle_connection_invalid_closes(c, len) ==
    /\ HandlerAt(c, "read")
    /\ FramesRead < MaxRequests
    /\ ~TooLarge(len)
    /\ conn' = [conn EXCEPT ![c].invalid = @ + 1, ![c].pc = "closed"]
    /\ UNCHANGED <<daemonVars, captureVars, storage, clock, cmdQueue, nSent, respCh,
                   consumerVars, workerVars, compress_to_ogg, audioVars,
                   processVars>>

\* handle_connection, lines 102-125: the body does not deserialize; the
\* handler writes Error("Invalid request: ...") itself and goes on with the
\* next frame
handle_connection_invalid(c, len) ==
    /\ HandlerAt(c, "read")
    /\ FramesRead < MaxRequests
    /\ ~TooLarge(len)
    /\ conn' = [conn EXCEPT ![c].invalid = @ + 1]
    /\ UNCHANGED <<daemonVars, captureVars, storage, clock, cmdQueue, nSent, respCh,
                   consumerVars, workerVars, compress_to_ogg, audioVars,
                   processVars>>

\* handle_connection, lines 102-107: the length field is too large; break
\* before the body is read (len is the length field that ended the connection)
handle_connection_too_large(c, len) ==
    /\ HandlerAt(c, "read")
    /\ TooLarge(len)
    /\ conn' = [conn EXCEPT ![c].pc = "dropped", ![c].len = len]
    /\ UNCHANGED <<daemonVars, captureVars, storage, clock, cmdQueue, nSent, respCh,
                   consumerVars, workerVars, compress_to_ogg, audioVars,
                   processVars>>

\* the end of one iteration of handle_connection's loop, lines 141-147: the
\* response is written to the stream; close after a Shutdown exchange
ResponseWritten(c) ==
    [conn EXCEPT ![c].pc = IF conn[c].is_shutdown THEN "closed" ELSE "read",
                 ![c].is_shutdown = FALSE]

\* handle_connection, lines 136-147: take the response from the response
\* channel and write it to the stream
handle_connection_respond(c) ==
    /\ HandlerAt(c, "sent")
    /\ respCh[c] # <<>>
    /\ conn' = ResponseWritten(c)
    /\ respCh' = [respCh EXCEPT ![c] = Tail(@)]
    /\ UNCHANGED <<daemonVars, captureVars, storage, clock, cmdQueue, nSent, consumerVars,
                   workerVars, compress_to_ogg, audioVars,
                   processVars>>

\* handle_connection, lines 136-138: resp_rx.recv() returns None when the
\* response sender was dropped without a send (the consumer has exited), and
\* Error("Handler closed") is written instead
handle_connection_handler_closed(c) ==
    /\ HandlerAt(c, "sent")
    /\ respCh[c] = <<>>
    /\ consumerPc = "exited"
    /\ conn' = ResponseWritten(c)
    /\ UNCHANGED <<daemonVars, captureVars, storage, clock, cmdQueue, nSent, respCh,
                   consumerVars, workerVars, compress_to_ogg, audioVars,
                   processVars>>

(* --------------------- command consumer (service.rs) ------------------- *)
RecvIndex_Newest(q) == Len(q)

\* cmd_rx.recv(): the channel delivers the oldest queued command
RecvIndex(q) == 1

RemoveAt(q, i) == SubSeq(q, 1, i - 1) \o SubSeq(q, i + 1, Len(q))

\* command_handler, line 76
command_handler_recv ==
    /\ consumerPc = "recv"
    /\ cmdQueue # <<>>
    /\ current' = cmdQueue[RecvIndex(cmdQueue)]
    /\ cmdQueue' = RemoveAt(cmdQueue, RecvIndex(cmdQueue))
    /\ nRecv' = nRecv + 1
    /\ consumerPc' = "handling"
    /\ UNCHANGED <<daemonVars, captureVars, storage, clock, nSent, conn, respCh, lastStarted,
                   workerVars, compress_to_ogg, audioVars,
                   processVars>>

Handling(t) == consumerPc = "handling" /\ current.req.type = t

\* command_handler, line 98: send the response and go back to recv()
Reply(r) ==
    /\ respCh' = [respCh EXCEPT ![current.conn] = Append(@, r)]
    /\ consumerPc' = "recv"
    /\ current' = NoCommand
    /\ lastStarted' = IF r.type = "RecordingStarted"
                      THEN [id |-> r.id, title |-> current.req.title]
                      ELSE NoSession
    /\ UNCHANGED <<nRecv, cmdQueue, nSent, conn>>

Held(cap) == IF cap.held THEN 1 ELSE 0

AlreadyRecording_Never(st) == FALSE

\* handle_start_recording, line 114
AlreadyRecording(st) == st.kind = "Recording"

\* handle_start_recording, lines 128-132 and 136-140: create_capture or
\* capture.start() failed; the capture (if any) goes out of scope, and its
\* Drop stops whatever it had started
start_capture_failed_retains(msg, audio_path) ==
    /\ Reply(Error(msg))
    /\ audio_capture' = [held |-> TRUE, path |-> audio_path]
    /\ capturesRunning' = capturesRunning + 1 - Held(audio_capture)
    /\ UNCHANGED <<daemonVars, stopWarned, storage>>

start_capture_failed(msg, audio_path) ==
    /\ Reply(Error(msg))
    /\ UNCHANGED <<daemonVars, captureVars, storage>>

\* Outcome of create_capture + capture.start()
CaptureOutcomes == {"ok", "create_err", "start_err"}

handle_start_recording ==
    /\ Handling("StartRecording")
    /\ IF AlreadyRecording(daemonState)
       THEN /\ Reply(Error("Already recording"))
            /\ UNCHANGED <<daemonVars, captureVars, storage>>
       ELSE \E id \in Ids, cap \in CaptureOutcomes, db \in DbOutcomes :
            LET recording == NewRecording(id, current.req.title, clock)
                audio_path == WavPath(recording.id)
                db_recording == [recording EXCEPT !.audio_path = audio_path]
            IN  IF cap # "ok"
                THEN start_capture_failed(IF cap = "start_err"
                                          THEN "Failed to start audio capture"
                                          ELSE "Failed to initialize audio", audio_path)
                ELSE \* *audio_capture = Some(capture): a capture still held
                     \* from before is dropped, and Drop stops it
                     /\ audio_capture' = [held |-> TRUE, path |-> audio_path]
                     /\ capturesRunning' = capturesRunning + 1 - Held(audio_capture)
                     /\ UNCHANGED stopWarned
                     /\ IF db = "open_err"
                        THEN /\ Reply(Error("Database error"))
                             /\ UNCHANGED <<daemonVars, storage>>
                        ELSE IF db = "op_err" \/ RowExists(storage, id)
                        THEN /\ Reply(Error("Failed to save recording"))
                             /\ UNCHANGED <<daemonVars, storage>>
                        ELSE /\ storage' = insert_recording(storage, db_recording)
                             /\ daemonState' = Recording(recording, audio_path, clock)
                             /\ Reply(RecordingStarted(recording.id))
    /\ UNCHANGED <<clock, workerVars, compress_to_ogg, audioVars,
                   processVars>>

\* handle_stop_recording, lines 184-185
NotRecording(st) == st.kind # "Recording"

stop_not_recording_releases ==
    /\ Reply(Error("Not recording"))
    /\ audio_capture' = NoCapture
    /\ capturesRunning' = capturesRunning - Held(audio_capture)
    /\ UNCHANGED <<daemonVars, stopWarned, storage>>

\* handle_stop_recording, lines 186-190
stop_not_recording ==
    /\ Reply(Error("Not recording"))
    /\ UNCHANGED <<daemonVars, captureVars, storage>>

handle_stop_recording ==
    /\ Handling("StopRecording")
    /\ IF NotRecording(daemonState)
       THEN stop_not_recording
       ELSE \E stopErr \in BOOLEAN, db \in DbOutcomes :
            LET id == daemonState.recording.id
                duration_secs == AsSecs(clock - daemonState.started_at)
                wav_path == daemonState.audio_path
            IN  \* capture.stop() (an error is only logged); *audio_capture = None
                /\ stopWarned' = (stopWarned \/ (audio_capture.held /\ stopErr))
                /\ audio_capture' = NoCapture
                /\ capturesRunning' = capturesRunning - Held(audio_capture)
                /\ IF db = "open_err"
                   THEN /\ Reply(Error("Database error"))
                        /\ UNCHANGED <<daemonVars, storage>>
                   ELSE /\ storage' =
                             IF RowExists(storage, id) /\ db = "ok"
                             THEN update_recording(storage,
                                      [storage[id] EXCEPT !.duration_secs = duration_secs,
                                                          !.audio_path = wav_path,
                                                          !.state = "pending"])
                             ELSE storage
                        /\ daemonState' = Idle
                        /\ Reply(RecordingStopped(id, duration_secs))
    /\ UNCHANGED <<clock, workerVars, compress_to_ogg, audioVars,
                   processVars>>

\* command_handler, lines 84-87
handle_get_status ==
    /\ Handling("GetStatus")
    /\ Reply(StatusResp(ToStatus(daemonState, clock)))
    /\ UNCHANGED <<daemonVars, captureVars, storage, clock, workerVars, compress_to_ogg, audioVars,
                   processVars>>

\* command_handler, line 88
handle_ping ==
    /\ Handling("Ping")
    /\ Reply(Pong)
    /\ UNCHANGED <<daemonVars, captureVars, storage, clock, workerVars, compress_to_ogg, audioVars,
                   processVars>>

handle_shutdown_continues ==
    /\ Handling("Shutdown")
    /\ Reply(OkResp)
    /\ UNCHANGED <<daemonVars, captureVars, storage, clock, workerVars, compress_to_ogg, audioVars,
                   processVars>>

\* command_handler, lines 89-92: send Ok and break; returning from
\* command_handler drops cmd_rx and, with it, every queued command and its
\* response sender.  The local audio_capture is dropped too (Drop stops it).
\* The other tasks go on until run() has returned (run_cleanup).
handle_shutdown ==
    /\ Handling("Shutdown")
    /\ respCh' = [respCh EXCEPT ![current.conn] = Append(@, OkResp)]
    /\ consumerPc' = "exited"
    /\ current' = NoCommand
    /\ lastStarted' = NoSession
    /\ audio_capture' = NoCapture
    /\ capturesRunning' = capturesRunning - Held(audio_capture)
    /\ UNCHANGED <<daemonVars, stopWarned, storage, clock, cmdQueue, nSent, nRecv, conn,
                   workerVars, compress_to_ogg, audioVars,
                   processVars>>

\* handle_transcribe_request
handle_transcribe_request ==
    /\ Handling("Transcribe")
    /\ \E db \in DbOutcomes :
        LET found == find_recording_by_prefix(storage, current.req.recording_id) IN
        IF db = "open_err"
        THEN Reply(Error("Database error")) /\ UNCHANGED storage
        ELSE IF found = {}
        THEN Reply(Error("Recording not found")) /\ UNCHANGED storage
        ELSE IF db = "op_err"
        THEN Reply(Error("Failed to queue transcription")) /\ UNCHANGED storage
        ELSE \E id \in found :
                /\ storage' = update_recording(storage, [storage[id] EXCEPT !.state = "pending"])
                /\ Reply(OkResp)
    /\ UNCHANGED <<daemonVars, captureVars, clock, workerVars, compress_to_ogg, audioVars,
                   processVars>>

(* ------------------ transcription worker (service.rs) ------------------ *)
\* transcription_worker, lines 306-314: after the sleep, go on only if the
\* state is Idle (otherwise `continue`, which changes nothing)
transcription_worker_poll ==
    /\ workerPc = "sleep"
    /\ daemonState.kind = "Idle"
    /\ workerPc' = "fetch"
    /\ UNCHANGED <<daemonVars, captureVars, storage, clock, consumerAll, pending, workerRec,
                   workerResult, progressTasks, compress_to_ogg, audioVars,
                   processVars>>

\* transcription_worker, lines 317-331
transcription_worker_fetch ==
    /\ workerPc = "fetch"
    /\ \E db \in DbOutcomes :
        IF db # "ok"
        THEN workerPc' = "sleep" /\ UNCHANGED pending
        ELSE \E p \in get_pending_recordings(storage) :
                /\ pending' = [i \in 1..Len(p) |-> storage[p[i]]]
                /\ workerPc' = "loop"
    /\ UNCHANGED <<daemonVars, captureVars, storage, clock, consumerAll, workerRec,
                   workerResult, progressTasks, compress_to_ogg, audioVars,
                   processVars>>

\* transcription_worker, lines 333-341: next recording of the list, or back
\* to the sleep when the list is exhausted
transcription_worker_next ==
    /\ workerPc = "loop"
    /\ IF pending = <<>>
       THEN /\ workerPc' = "sleep"
            /\ UNCHANGED <<daemonVars, pending, workerRec>>
       ELSE /\ workerRec' = Head(pending)
            /\ pending' = Tail(pending)
            /\ daemonState' = Transcribing(Head(pending).id, ProgressZero)
            /\ workerPc' = "run"
    /\ UNCHANGED <<captureVars, storage, clock, consumerAll, workerResult,
                   progressTasks, compress_to_ogg, audioVars,
                   processVars>>

\* load_audio (whisper.rs): hound::WavReader::open reads RIFF/WAVE only
CanLoadAudio(path) == path.ext = "wav"

\* the closure of run_transcription, lines 398-407: each call spawns a task
\* that will write the progress; `from` records which transcription spawned it
SpawnProgress(id, ps) == SetToBag({[from |-> id, progress |-> p] : p \in ps})

\* pipeline.rs, line 57: (i as f32 + 0.5) / total_chunks as f32
WindowProgress_End(i, total_chunks) == Progress(2 * i + 2, 2 * total_chunks)

WindowProgress(i, total_chunks) == Progress(2 * i + 1, 2 * total_chunks)

\* pipeline.rs, lines 53-76: the progress values reported when the first
\* `done` of `total` windows are transcribed and window done+1 (if any) fails
\* after its report; the final 1.0 is reported when all windows succeeded
ReportedProgress(done, total) ==
    {WindowProgress(i, total) : i \in 0..(done - 1)}
    \cup (IF done < total THEN {WindowProgress(done, total)} ELSE {ProgressOne})

\* run_transcription, lines 376-409, with pipeline.rs transcribe (which has
\* no suspension point): mark the recording Transcribing in storage, load the
\* audio, transcribe window after window
run_transcription_begin ==
    /\ workerPc = "run"
    /\ \E out \in {"ok", "db_err", "pipeline_err"}, total \in 0..MaxWindows :
        IF out = "db_err"
        THEN /\ workerResult' = "err"
             /\ workerPc' = "revert"
             /\ UNCHANGED <<storage, progressTasks>>
        ELSE /\ storage' = update_recording_state(storage, workerRec.id, "transcribing")
             /\ IF \/ workerRec.audio_path = NoPath
                   \/ out = "pipeline_err"
                   \/ ~CanLoadAudio(workerRec.audio_path)
                THEN /\ workerResult' = "err"
                     /\ workerPc' = "revert"
                     /\ UNCHANGED progressTasks
                ELSE \E done \in 0..total :
                     /\ progressTasks' =
                            progressTasks (+) SpawnProgress(workerRec.id,
                                                            ReportedProgress(done, total))
                     /\ workerResult' = IF done < total THEN "err" ELSE "ok"
                     /\ workerPc' = IF done < total THEN "revert" ELSE "store"
    /\ UNCHANGED <<daemonVars, captureVars, clock, consumerAll, pending, workerRec,
                   compress_to_ogg, audioVars,
                   processVars>>

\* run_transcription, lines 411-415: insert_segments, then mark Completed
run_transcription_store ==
    /\ workerPc = "store"
    /\ \E db \in {"ok", "op_err"} :
        IF db = "ok"
        THEN /\ storage' = update_recording_state(storage, workerRec.id, "completed")
             /\ workerPc' = "compress"
             /\ UNCHANGED workerResult
        ELSE /\ workerResult' = "err"
             /\ workerPc' = "revert"
             /\ UNCHANGED storage
    /\ UNCHANGED <<daemonVars, captureVars, clock, consumerAll, pending, workerRec,
                   progressTasks, compress_to_ogg, audioVars,
                   processVars>>

\* lines 241-248 without the test of the setting
should_compress_any_wav(enabled, audio_path) == audio_path.ext = "wav"

\* should_compress_after_transcription
should_compress_after_transcription(enabled, audio_path) ==
    enabled /\ audio_path.ext = "wav"

\* run_transcription, lines 417-426, with maybe_compress_transcribed_audio:
\* a failed compression is only logged
run_transcription_compress ==
    /\ workerPc = "compress"
    /\ \E encoded \in BOOLEAN :
        IF should_compress_after_transcription(compress_to_ogg, workerRec.audio_path)
           /\ encoded /\ RowExists(storage, workerRec.id)
        THEN storage' = update_recording(storage,
                 [storage[workerRec.id] EXCEPT !.audio_path = [@ EXCEPT !.ext = "ogg"]])
        ELSE UNCHANGED storage
    /\ workerResult' = "ok"
    /\ workerPc' = "revert"
    /\ UNCHANGED <<daemonVars, captureVars, clock, consumerAll, pending, workerRec,
                   progressTasks, compress_to_ogg, audioVars,
                   processVars>>

\* transcription_worker, lines 348-352
transcription_worker_revert ==
    /\ workerPc = "revert"
    /\ daemonState' = Idle
    /\ workerPc' = IF workerResult = "err" THEN "failed" ELSE "loop"
    /\ workerRec' = IF workerResult = "err" THEN workerRec ELSE NoRecording
    /\ UNCHANGED <<captureVars, storage, clock, consumerAll, pending,
                   workerResult, progressTasks, compress_to_ogg, audioVars,
                   processVars>>

transcription_worker_mark_failed_all ==
    /\ workerPc = "failed"
    /\ storage' = [i \in Ids |-> IF RowExists(storage, i)
                                  THEN [storage[i] EXCEPT !.state = "failed"]
                                  ELSE storage[i]]
    /\ workerPc' = "loop"
    /\ workerResult' = "ok"
    /\ workerRec' = NoRecording
    /\ UNCHANGED <<daemonVars, captureVars, clock, consumerAll, pending,
                   progressTasks, compress_to_ogg, audioVars,
                   processVars>>

\* lines 354-365 without the update of the recording's state
transcription_worker_mark_failed_skipped ==
    /\ workerPc = "failed"
    /\ workerPc' = "loop"
    /\ workerResult' = "ok"
    /\ workerRec' = NoRecording
    /\ UNCHANGED <<daemonVars, captureVars, storage, clock, consumerAll, pending,
                   progressTasks, compress_to_ogg, audioVars,
                   processVars>>

\* transcription_worker, lines 358-364: a storage error here is only logged
transcription_worker_mark_failed ==
    /\ workerPc = "failed"
    /\ \E db \in {"ok", "op_err"} :
        storage' = IF db = "ok"
                   THEN update_recording_state(storage, workerRec.id, "failed")
                   ELSE storage
    /\ workerPc' = "loop"
    /\ workerResult' = "ok"
    /\ workerRec' = NoRecording
    /\ UNCHANGED <<daemonVars, captureVars, clock, consumerAll, pending,
                   progressTasks, compress_to_ogg, audioVars,
                   processVars>>

\* the task spawned by the progress closure, lines 401-406
progress_task_run(t) ==
    /\ BagIn(t, progressTasks)
    /\ progressTasks' = progressTasks (-) SetToBag({t})
    /\ IF daemonState.kind = "Transcribing"
       THEN /\ daemonState' = [daemonState EXCEPT !.progress = t.progress]
       ELSE UNCHANGED daemonVars
    /\ UNCHANGED <<captureVars, storage, clock, consumerAll, workerPc, pending, workerRec,
                   workerResult, compress_to_ogg, audioVars,
                   processVars>>

(* ------------------ daemon process (service.rs run) -------------------- *)
\* run, lines 21-26: ensure_dirs and the write of the PID file; a failure of
\* either ends the process with an error
run_write_pid ==
    /\ runPc = "start"
    /\ \E ok \in BOOLEAN :
        IF ok
        THEN /\ pidFile' = "daemon"
             /\ runPc' = "bind"
             /\ UNCHANGED exitStatus
        ELSE /\ runPc' = "returned"
             /\ exitStatus' = "error"
             /\ UNCHANGED pidFile
    /\ UNCHANGED <<daemonVars, captureVars, storage, clock, consumerAll, workerVars,
                   compress_to_ogg, audioVars, socketFile, launcherPc, polls>>

\* run, lines 28-50, with IpcServer::start (server.rs 32-48): a stale socket
\* file is removed, then the listener is bound; on success the server task and
\* the worker are spawned and clients can connect.  On failure `?` returns
\* from run(): the IpcServer is dropped (Drop removes the socket file if there
\* is one and it can be removed; a stale file whose removal failed stays) and
\* nothing else is undone.
run_start_server ==
    /\ runPc = "bind"
    /\ \E bound \in BOOLEAN :
        IF bound
        THEN /\ socketFile' = "daemon"
             /\ runPc' = "serving"
             /\ conn' = [c \in Conns |-> [conn[c] EXCEPT !.pc = "read"]]
             /\ workerPc' = "sleep"
             /\ UNCHANGED exitStatus
        ELSE /\ socketFile' \in {"none", socketFile}
             /\ runPc' = "returned"
             /\ exitStatus' = "error"
             /\ UNCHANGED <<conn, workerPc>>
    /\ UNCHANGED <<daemonVars, captureVars, storage, clock, consumerVars, cmdQueue, nSent,
                   respCh, pending, workerRec, workerResult, progressTasks,
                   compress_to_ogg, audioVars, pidFile, launcherPc, polls>>

\* run, lines 53-65, and the return of main: command_handler has returned;
\* the PID file is removed, the server task and the worker are told to abort,
\* and with main the runtime is dropped and every task that is still alive
\* (connection handlers, worker, progress tasks) ends wherever it is.  The
\* server task's IpcServer is dropped, which removes the socket file.
run_cleanup ==
    /\ runPc = "serving"
    /\ consumerPc = "exited"
    /\ pidFile' = "none"
    /\ socketFile' = "none"
    /\ runPc' = "returned"
    /\ exitStatus' = "ok"
    /\ workerPc' = "dead"
    /\ progressTasks' = EmptyBag
    /\ UNCHANGED <<daemonVars, captureVars, storage, clock, consumerAll, pending,
                   workerRec, workerResult, compress_to_ogg, audioVars, launcherPc, polls>>

(* ------------------- launcher (daemon/mod.rs start_daemon) -------------- *)
\* iterations of the readiness loop that fit before the deadline (2 s of
\* 50 ms sleeps in the source)
MaxPolls == 3

LauncherReturned == {"started", "already_running", "failed", "child_exited", "timed_out"}

launcherRest == <<daemonVars, captureVars, storage, clock, consumerAll, workerVars,
                  compress_to_ogg, audioVars>>

\* start_daemon, lines 19-39: a PID file that names a live process ends the
\* call ("already running"); any other PID file is removed, and a failure of
\* that removal is returned; the removal of a socket file is attempted and its
\* failure ignored (`let _ =`).
start_daemon_check ==
    /\ launcherPc = "check"
    /\ IF pidFile = "other"
       THEN /\ launcherPc' = "already_running"
            /\ UNCHANGED <<pidFile, socketFile>>
       ELSE \E pid_removed \in BOOLEAN, socket_removed \in BOOLEAN :
               IF pidFile # "none" /\ ~pid_removed
               THEN /\ launcherPc' = "failed"
                    /\ UNCHANGED <<pidFile, socketFile>>
               ELSE /\ pidFile' = "none"
                    /\ socketFile' = IF socket_removed THEN "none" ELSE socketFile
                    /\ launcherPc' = "spawn"
    /\ UNCHANGED <<launcherRest, runPc, exitStatus, polls>>

\* start_daemon, lines 42-51: current_exe and spawn; on success the child
\* enters run() and the deadline is set
start_daemon_spawn ==
    /\ launcherPc = "spawn"
    /\ \E spawned \in BOOLEAN :
        IF spawned
        THEN /\ runPc' = "start"
             /\ launcherPc' = "poll"
        ELSE /\ launcherPc' = "failed"
             /\ UNCHANGED runPc
    /\ UNCHANGED <<launcherRest, exitStatus, pidFile, socketFile, polls>>

\* child.try_wait() yields a status: the child has exited
try_wait_ignored == FALSE

try_wait == runPc = "returned"

\* start_daemon, lines 52-58: the loop condition and try_wait.  Past the
\* deadline the loop is left and line 67 returns the timeout error; a child
\* that has exited ends the call with its exit status.
start_daemon_try_wait ==
    /\ launcherPc = "poll"
    /\ launcherPc' = IF polls >= MaxPolls THEN "timed_out"
                     ELSE IF try_wait THEN "child_exited"
                     ELSE "poll_pid"
    /\ UNCHANGED <<launcherRest, runPc, exitStatus, pidFile, socketFile, polls>>

\* start_daemon, line 60, left operand of &&: pid_path.exists(); when it is
\* false the socket is not looked at and line 64 sleeps
start_daemon_check_pid ==
    /\ launcherPc = "poll_pid"
    /\ IF pidFile # "none"
       THEN /\ launcherPc' = "poll_socket"
            /\ UNCHANGED polls
       ELSE /\ launcherPc' = "poll"
            /\ polls' = polls + 1
    /\ UNCHANGED <<launcherRest, runPc, exitStatus, pidFile, socketFile>>

\* start_daemon, lines 60-64, right operand of &&: socket_path.exists();
\* true returns Ok(()), false sleeps
start_daemon_check_socket ==
    /\ launcherPc = "poll_socket"
    /\ IF socketFile # "none"
       THEN /\ launcherPc' = "started"
            /\ UNCHANGED polls
       ELSE /\ launcherPc' = "poll"
            /\ polls' = polls + 1
    /\ UNCHANGED <<launcherRest, runPc, exitStatus, pidFile, socketFile>>

start_daemon ==
    \/ start_daemon_check
    \/ start_daemon_spawn
    \/ start_daemon_try_wait
    \/ start_daemon_check_pid
    \/ start_daemon_check_socket

(* ------------- PipeWire capture (audio/pipewire_capture.rs) ------------- *)
\* capture_targets: one resolved target per enabled source, system first
capture_targets(capture_system, capture_microphone) ==
    (IF capture_system THEN <<"system">> ELSE <<>>)
        \o (IF capture_microphone THEN <<"microphone">> ELSE <<>>)

\* spawn_pw_record: a running pw-record that writes to the given path
spawn_pw_record(path) == [state |-> "running", signal |-> "none", path |-> path]

mic_unavailable_fails(pw) == [pipewire |-> pw, result |-> "Err"]

\* start, the Err arm of the microphone spawn: the system recorder is kept,
\* no microphone process and no microphone path are stored, start returns Ok
mic_unavailable(pw) ==
    [pipewire |-> [pw EXCEPT !.system_process = "system", !.mic_process = None,
                             !.mic_path = None],
     result |-> "Ok"]

start_returns(result) ==
    pwCall' = [pc |-> IF result = "Ok" THEN "started" ELSE "failed", result |-> result]

\* PipeWireCapture::start: no target enabled is an error; create_dir_all may
\* fail; then output_path and the recording flag are set and the recorders
\* are spawned, each spawn succeeding or failing.
PipeWireCapture_start ==
    /\ pwCall.pc = "new"
    /\ LET ts == capture_targets(pipewire.capture_system, pipewire.capture_microphone)
           pw == [pipewire EXCEPT !.output_path = "output", !.recording = TRUE]
       IN  \E dir_ok \in BOOLEAN, system_spawned \in BOOLEAN, mic_spawned \in BOOLEAN :
           IF ts = <<>> \/ ~dir_ok
           THEN /\ start_returns("Err")
                /\ UNCHANGED <<pipewire, pw_record>>
           ELSE IF Len(ts) = 2
           THEN IF ~system_spawned
                THEN /\ start_returns("Err")
                     /\ pipewire' = pw
                     /\ UNCHANGED pw_record
                ELSE IF ~mic_spawned
                THEN /\ start_returns(mic_unavailable(pw).result)
                     /\ pipewire' = mic_unavailable(pw).pipewire
                     /\ pw_record' = [pw_record EXCEPT !["system"] = spawn_pw_record("output")]
                ELSE /\ start_returns("Ok")
                     /\ pipewire' = [pw EXCEPT !.system_process = "system",
                                               !.mic_process = "microphone",
                                               !.mic_path = "mic"]
                     /\ pw_record' = [pw_record EXCEPT !["system"] = spawn_pw_record("output"),
                                                       !["microphone"] = spawn_pw_record("mic")]
           ELSE IF pipewire.capture_system
           THEN IF system_spawned
                THEN /\ start_returns("Ok")
                     /\ pipewire' = [pw EXCEPT !.system_process = "system"]
                     /\ pw_record' = [pw_record EXCEPT !["system"] = spawn_pw_record("output")]
                ELSE /\ start_returns("Err")
                     /\ pipewire' = pw
                     /\ UNCHANGED pw_record
           ELSE IF mic_spawned
                THEN /\ start_returns("Ok")
                     /\ pipewire' = [pw EXCEPT !.mic_process = "microphone"]
                     /\ pw_record' = [pw_record EXCEPT !["microphone"] = spawn_pw_record("output")]
                ELSE /\ start_returns("Err")
                     /\ pipewire' = pw
                     /\ UNCHANGED pw_record
    /\ UNCHANGED <<tracks, exceptPipeWire>>

\* a running pw-record creates its file with the WAV header and appends samples
pw_record_write(r) ==
    /\ pw_record[r].state = "running"
    /\ LET f == pw_record[r].path
           size == tracks[f]
       IN  /\ size < WavHeader + MaxTrackSamples * SampleBytes
           /\ tracks' = [tracks EXCEPT ![f] = IF size = NoFile THEN WavHeader
                                              ELSE size + SampleBytes]
    /\ UNCHANGED <<pipewire, pw_record, pwCall, exceptPipeWire>>

\* a pw-record process ends: on the signal, or on its own (a target that
\* cannot be opened, a crash); nothing obliges it to
pw_record_exit(r) ==
    /\ pw_record[r].state = "running"
    /\ pw_record' = [pw_record EXCEPT ![r].state = "exited"]
    /\ UNCHANGED <<pipewire, tracks, pwCall, exceptPipeWire>>

\* wait_for_process, line 275: libc::kill(pid, SIGTERM)
Signalled(procs, r) == [procs EXCEPT ![r].signal = "SIGTERM"]

\* stop, lines 212-216: the flag is cleared, system_process is taken and, if
\* there was one, signalled; the call then blocks in child.wait()
PipeWireCapture_stop ==
    /\ pwCall.pc = "started"
    /\ IF pipewire.system_process # None
       THEN /\ pipewire' = [pipewire EXCEPT !.recording = FALSE, !.system_process = None]
            /\ pw_record' = Signalled(pw_record, "system")
            /\ pwCall' = [pwCall EXCEPT !.pc = "wait_system"]
       ELSE IF pipewire.mic_process # None
       THEN /\ pipewire' = [pipewire EXCEPT !.recording = FALSE, !.mic_process = None]
            /\ pw_record' = Signalled(pw_record, "microphone")
            /\ pwCall' = [pwCall EXCEPT !.pc = "wait_mic"]
       ELSE /\ pipewire' = [pipewire EXCEPT !.recording = FALSE]
            /\ pwCall' = [pwCall EXCEPT !.pc = "mix"]
            /\ UNCHANGED pw_record
    /\ UNCHANGED <<tracks, exceptPipeWire>>

\* wait_for_process, lines 278-287, for the system recorder: child.wait()
\* returns once the child has exited (its status is only logged); then lines
\* 218-220 take and signal the microphone recorder
wait_for_process_system ==
    /\ pwCall.pc = "wait_system"
    /\ pw_record["system"].state = "exited"
    /\ IF pipewire.mic_process # None
       THEN /\ pipewire' = [pipewire EXCEPT !.mic_process = None]
            /\ pw_record' = Signalled([pw_record EXCEPT !["system"].state = "reaped"],
                                      "microphone")
            /\ pwCall' = [pwCall EXCEPT !.pc = "wait_mic"]
       ELSE /\ pw_record' = [pw_record EXCEPT !["system"].state = "reaped"]
            /\ pwCall' = [pwCall EXCEPT !.pc = "mix"]
            /\ UNCHANGED pipewire
    /\ UNCHANGED <<tracks, exceptPipeWire>>

\* wait_for_process, lines 278-287, for the microphone recorder
wait_for_process_mic ==
    /\ pwCall.pc = "wait_mic"
    /\ pw_record["microphone"].state = "exited"
    /\ pw_record' = [pw_record EXCEPT !["microphone"].state = "reaped"]
    /\ pwCall' = [pwCall EXCEPT !.pc = "mix"]
    /\ UNCHANGED <<pipewire, tracks, exceptPipeWire>>

\* maybe_mix_microphone_track, lines 333-341: a missing file and a file of
\* at most 44 bytes are left alone
MicTrackEmpty(mic_size) == mic_size = NoFile \/ mic_size <= WavHeader

Max(a, b) == IF a >= b THEN a ELSE b

\* mix_wav_files: both files are read (a missing system file is an error),
\* the longer of the two lengths is mixed and written over the system file
mix_wav_files(t) ==
    IF t.output = NoFile THEN t
    ELSE [t EXCEPT !.output = Max(t.output, t.mic), !.mixed = TRUE]

\* stop, lines 222-236: with an output path and a microphone path the
\* microphone track is mixed in if there is one (a failure is only logged)
\* and the microphone file is removed; stop returns Ok
PipeWireCapture_stop_mix ==
    /\ pwCall.pc = "mix"
    /\ IF pipewire.output_path # None /\ pipewire.mic_path # None
       THEN /\ pipewire' = [pipewire EXCEPT !.mic_path = None]
            /\ tracks' = [(IF MicTrackEmpty(tracks.mic) THEN tracks ELSE mix_wav_files(tracks))
                            EXCEPT !.mic = NoFile]
       ELSE UNCHANGED <<pipewire, tracks>>
    /\ pwCall' = [pc |-> "stopped", result |-> "Ok"]
    /\ UNCHANGED <<pw_record, exceptPipeWire>>

\* what stop() does once it has been entered
PipeWireCapture_stop_continues ==
    \/ wait_for_process_system
    \/ wait_for_process_mic
    \/ PipeWireCapture_stop_mix

(* ------------- target resolution (audio/pipewire_capture.rs) ------------ *)
\* devices a section of the listing holds at most
MaxNodes == 2

\* ids and names as `wpctl status -n` prints them, by position in the section
NodeIds ==
    [k \in TargetKinds |-> IF k = "System" THEN <<"61", "72", "83">> ELSE <<"62", "55", "94">>]
NodeNames == {"alsa", "bluez"}
ConfiguredNames == NodeNames \cup {"filter"}

\* the (id, name, is_default) tuples parse_wpctl_status_default_node_id
\* collects from the section of kind k; an empty sequence also stands for a
\* `wpctl status` that failed or printed no such section
Listings(k) ==
    UNION {[1..n -> {[id |-> i, name |-> nm, is_default |-> d] :
                        i \in {NodeIds[k][j] : j \in 1..MaxNodes}, nm \in NodeNames,
                        d \in BOOLEAN}] : n \in 0..MaxNodes}

ListingOf(k) ==
    {l \in Listings(k) : \A i \in DOMAIN l : l[i].id = NodeIds[k][i]}

\* what the two wpctl commands answer for kind k: the id parsed from
\* `wpctl inspect <alias>` if any, the listed devices, the configured default name
WpctlAnswers(k) ==
    {[inspect |-> ins, nodes |-> l, configured |-> cfg] :
        ins \in {<<>>, <<"40">>}, l \in ListingOf(k),
        cfg \in {<<>>} \cup {<<nm>> : nm \in ConfiguredNames}}

SYSTEM_TARGET_FALLBACK == "@DEFAULT_AUDIO_SINK.monitor"
MICROPHONE_TARGET_FALLBACK == "@DEFAULT_AUDIO_SOURCE@"

Min(S) == CHOOSE x \in S : \A y \in S : x <= y

\* resolve_wpctl_node_id
resolve_wpctl_node_id(k) == wpctl[k].inspect

\* parse_wpctl_status_default_node_id, lines 519-529: the first node flagged
\* default, else the first node named like the configured default, else the
\* first node
default_node_id(nodes, configured) ==
    LET defaults == {i \in DOMAIN nodes : nodes[i].is_default}
        named == {i \in DOMAIN nodes : configured = <<nodes[i].name>>}
    IN  IF defaults # {} THEN <<nodes[Min(defaults)].id>>
        ELSE IF named # {} THEN <<nodes[Min(named)].id>>
        ELSE IF nodes # <<>> THEN <<nodes[1].id>>
        ELSE <<>>

\* parse_wpctl_status_default_node_id on the tuples collected for kind k
parse_wpctl_status_default_node_id(k) ==
    default_node_id(wpctl[k].nodes, wpctl[k].configured)

\* resolve_target
resolve_target(k) ==
    IF resolve_wpctl_node_id(k) # <<>>
    THEN [kind |-> k, target |-> resolve_wpctl_node_id(k)[1], method |-> "WpctlInspect"]
    ELSE IF parse_wpctl_status_default_node_id(k) # <<>>
    THEN [kind |-> k, target |-> parse_wpctl_status_default_node_id(k)[1],
          method |-> "WpctlStatus"]
    ELSE [kind |-> k,
          target |-> IF k = "System" THEN SYSTEM_TARGET_FALLBACK
                     ELSE MICROPHONE_TARGET_FALLBACK,
          method |-> "FallbackAlias"]

Resolved(k) == \E i \in DOMAIN targets : targets[i].kind = k
Enabled(k) == IF k = "System" THEN pipewire.capture_system ELSE pipewire.capture_microphone

\* capture_targets_with_resolver: the system target is resolved and pushed
\* first, then the microphone target, each if its source is enabled
capture_targets_with_resolver(k) ==
    /\ pwCall.pc = "resolve"
    /\ Enabled(k)
    /\ ~Resolved(k)
    /\ ~Resolved("Microphone")
    /\ k = "Microphone" => (Enabled("System") => Resolved("System"))
    /\ targets' = Append(targets, resolve_target(k))
    /\ UNCHANGED <<wpctl, exceptResolve>>

(* ----------------------- OGG encoder (audio/encoder.rs) ------------------ *)
\* full frames an input holds at most
MaxFrames == 3
\* size of the buffer an Opus packet is encoded into
MaxPacket == 4000
\* bytes a segment-table entry can count
LaneSize == 255
\* frames per second: a frame is 20 ms
FramesPerSec == 50

\* sample rates of the input; Opus takes the first and refuses the second
SampleRates == {16000, 44100}
OpusRates == {8000, 12000, 16000, 24000, 48000}
\* lengths of the packets Opus returns for a frame
PacketLens == {60, LaneSize, 300}
\* values of rand_serial
Serials == {7, 9}
\* lengths of the OpusHead and OpusTags packets
IdHeaderLen == 19
CommentHeaderLen == 23

\* numbers of interleaved samples read from the WAV: whole frames, and whole
\* frames plus a rest
SampleCounts(samples_per_frame) ==
    {n \in {f * samples_per_frame + r : f \in 0..MaxFrames, r \in {0, 1}} :
        n <= MaxFrames * samples_per_frame}

\* WAV files encode may be given: none, one of a bit depth it does not
\* support, or 16-bit samples of some rate, channel count and length
WavFiles ==
    {NoWav} \cup
    UNION {{[exists |-> TRUE, bits_per_sample |-> b, sample_rate |-> r, channels |-> ch,
             samples |-> n] :
                b \in {16, 24}, n \in SampleCounts((r \div FramesPerSec) * ch)} :
           r \in SampleRates, ch \in {1, 2, 3}}

\* write_ogg_page, lines 310-319: segment count and table
SegmentCount_Lacing(len) == len \div LaneSize + 1

SegmentCount(len) == (len + (LaneSize - 1)) \div LaneSize
SegmentTable(len) ==
    [i \in 1..SegmentCount(len) |->
        IF len - (i - 1) * LaneSize < LaneSize THEN len - (i - 1) * LaneSize ELSE LaneSize]

\* write_ogg_page: the fields of the page header that are written, the count
\* cast to its byte, and the payload length (the page number is cast to u32,
\* which the page counts of these inputs do not come near)
write_ogg_page(serial, granule_pos, header_type, page_no, len) ==
    [header_type |-> header_type, granule_pos |-> granule_pos, serial |-> serial,
     page_no |-> page_no, segment_count |-> SegmentCount(len) % 256,
     segments |-> SegmentTable(len), len |-> len]

encode_fails ==
    /\ encoder' = [encoder EXCEPT !.pc = "returned", !.result = "Err"]

\* encode, lines 55-137: the WAV is read (a missing file, an unsupported bit
\* depth, no sample, a channel count or rate Opus refuses are errors), the
\* output file is created and the two header pages are written
encode_open ==
    /\ encoder.pc = "encode"
    /\ \E created \in BOOLEAN, serial \in Serials :
        IF \/ ~wavFile.exists
           \/ wavFile.bits_per_sample # 16
           \/ wavFile.samples = 0
           \/ wavFile.channels \notin {1, 2}
           \/ wavFile.sample_rate \notin OpusRates
           \/ ~created
        THEN /\ encode_fails
             /\ UNCHANGED oggFile
        ELSE /\ oggFile' =
                    [exists |-> TRUE,
                     pages |-> <<write_ogg_page(serial, 0, 2, 0, IdHeaderLen),
                                 write_ogg_page(serial, 0, 0, 1, CommentHeaderLen)>>]
             /\ encoder' = [encoder EXCEPT !.pc = "frames", !.serial = serial,
                                           !.packet_no = 2, !.granule_pos = 0,
                                           !.remaining = wavFile.samples]
    /\ UNCHANGED <<wavFile, exceptEncoder>>

\* encode, line 163: the header type of an audio page, 4 (end of stream) for
\* a chunk shorter than a frame
LastPageFlag(chunk_len, samples_per_frame) ==
    IF chunk_len < samples_per_frame THEN 4 ELSE 0

NextGranule_Stuck(granule_pos, frame_size) == granule_pos

\* encode, line 160
NextGranule(granule_pos, frame_size) == granule_pos + frame_size

\* encode, lines 148-173, one iteration of the loop over samples.chunks():
\* the chunk is padded to a frame and encoded (which may fail); the packet is
\* written as one page with the granule position advanced by a frame
encode_frame ==
    /\ encoder.pc = "frames"
    /\ encoder.remaining > 0
    /\ LET frame_size == wavFile.sample_rate \div FramesPerSec
           samples_per_frame == frame_size * wavFile.channels
           chunk_len == IF encoder.remaining < samples_per_frame THEN encoder.remaining
                        ELSE samples_per_frame
       IN  \E encoded \in BOOLEAN, encoded_len \in PacketLens :
           IF ~encoded
           THEN /\ encode_fails
                /\ UNCHANGED oggFile
           ELSE /\ oggFile' = [oggFile EXCEPT !.pages = Append(@,
                        write_ogg_page(encoder.serial,
                                       NextGranule(encoder.granule_pos, frame_size),
                                       LastPageFlag(chunk_len, samples_per_frame),
                                       encoder.packet_no, encoded_len))]
                /\ encoder' = [encoder EXCEPT !.granule_pos = NextGranule(@, frame_size),
                                              !.packet_no = @ + 1,
                                              !.remaining = @ - chunk_len]
    /\ UNCHANGED <<wavFile, exceptEncoder>>

\* encode, lines 177-190: the flush and the two metadata reads, any of which
\* may fail; then encode returns Ok and encode_and_cleanup goes on
encode_flush ==
    /\ encoder.pc = "frames"
    /\ encoder.remaining = 0
    /\ \E flushed \in BOOLEAN :
        IF flushed
        THEN encoder' = [encoder EXCEPT !.pc = "verify", !.encoded = TRUE]
        ELSE encode_fails
    /\ UNCHANGED <<wavFile, oggFile, exceptEncoder>>

\* size of the OGG file: per page the 27 header bytes, the segment table and
\* the payload
RECURSIVE OggSize(_)
OggSize(pages) ==
    IF pages = <<>> THEN 0
    ELSE 27 + Len(pages[1].segments) + pages[1].len + OggSize(Tail(pages))

\* what encode_and_cleanup requires of the output before it removes the source
OutputVerified(ogg) == ogg.exists /\ OggSize(ogg.pages) # 0

cleanup_refused_removes ==
    /\ encode_fails
    /\ wavFile' = [wavFile EXCEPT !.exists = FALSE]

\* encode_and_cleanup returns an error after encode: the WAV stays
cleanup_refused ==
    /\ encode_fails
    /\ UNCHANGED wavFile

\* encode_and_cleanup, lines 206-220: the output must exist and be non-empty;
\* then the WAV is removed, and a failure of the removal is returned
encode_and_cleanup ==
    /\ encoder.pc = "verify"
    /\ \E removed \in BOOLEAN :
        IF OutputVerified(oggFile) /\ removed
        THEN /\ wavFile' = [wavFile EXCEPT !.exists = FALSE]
             /\ encoder' = [encoder EXCEPT !.pc = "returned", !.result = "Ok"]
        ELSE cleanup_refused
    /\ UNCHANGED <<oggFile, exceptEncoder>>

\* write_ogg_page called with a payload of the given length
write_ogg_page_call ==
    /\ encoder.pc = "page"
    /\ oggFile' = [oggFile EXCEPT !.pages = Append(@,
                        write_ogg_page(7, 0, 0, 0, encoder.data_len))]
    /\ encoder' = [encoder EXCEPT !.pc = "returned", !.result = "Ok"]
    /\ UNCHANGED <<wavFile, exceptEncoder>>

(* ------------- `wpctl status -n` output (pipewire_capture.rs) ---------- *)
\* The output as its lines, each reduced to what the parser looks at: a line
\* that ends with a section label, a device line "[*] <id>. <name> ...", a
\* line "<n>. Audio/Sink <name>" of the configured defaults, or another line.
LabelLine(text) == [type |-> "label", text |-> text]
NodeLine(node) ==
    [type |-> "node", id |-> node.id, name |-> node.name, is_default |-> node.is_default]
ConfiguredLine(n, key, name) == [type |-> "configured", id |-> n, key |-> key, name |-> name]
OtherLine(text) == [type |-> "other", text |-> text]

NodeLines(nodes) == [i \in DOMAIN nodes |-> NodeLine(nodes[i])]

\* the layout wpctl prints: under Audio the sinks, then the sources, then
\* (by version) "Filters:" and "Streams:"; under Settings the configured
\* default devices
StatusOutput(sinks, sources, filters, streams, cfg_sink, cfg_source) ==
    <<OtherLine("Audio"), LabelLine("Sinks:")>> \o NodeLines(sinks)
    \o <<LabelLine("Sources:")>> \o NodeLines(sources)
    \o (IF filters THEN <<LabelLine("Filters:")>> ELSE <<>>)
    \o (IF streams THEN <<LabelLine("Streams:")>> ELSE <<>>)
    \o <<OtherLine("Settings")>>
    \o (IF cfg_sink = <<>> THEN <<>> ELSE <<ConfiguredLine("0", "Audio/Sink", cfg_sink[1])>>)
    \o (IF cfg_source = <<>> THEN <<>>
        ELSE <<ConfiguredLine("1", "Audio/Source", cfg_source[1])>>)

Configured == {<<>>} \cup {<<nm>> : nm \in ConfiguredNames}

\* what `wpctl status -n` may print, with the devices each section lists
StatusAnswers ==
    {[status |-> StatusOutput(sinks, sources, filters, streams, cfg_sink, cfg_source),
      sinks |-> sinks, sources |-> sources] :
        sinks \in ListingOf("System"), sources \in ListingOf("Microphone"),
        filters \in BOOLEAN, streams \in BOOLEAN,
        cfg_sink \in Configured, cfg_source \in Configured}

\* parse_wpctl_status_node_line: the first run of digits, a dot, the next
\* word; a line of the configured defaults has that shape too
parse_wpctl_status_node_line(line) ==
    CASE line.type = "node" ->
            <<[id |-> line.id, name |-> line.name, is_default |-> line.is_default]>>
      [] line.type = "configured" ->
            <<[id |-> line.id, name |-> line.key, is_default |-> FALSE]>>
      [] OTHER -> <<>>

\* parse_wpctl_configured_default_name: the word after the key on the first
\* line that holds the key
parse_wpctl_configured_default_name(output, kind) ==
    LET key == IF kind = "System" THEN "Audio/Sink" ELSE "Audio/Source"
        hits == {i \in DOMAIN output : output[i].type = "configured" /\ output[i].key = key}
    IN  IF hits = {} THEN <<>> ELSE <<output[Min(hits)].name>>

\* the loop of parse_wpctl_status_default_node_id, lines 497-517
RECURSIVE collect_nodes(_, _, _)
collect_nodes(lines, section_label, in_section) ==
    IF lines = <<>>
    THEN <<>>
    ELSE LET line == Head(lines)
         IN  IF line.type = "label" /\ line.text = section_label
             THEN collect_nodes(Tail(lines), section_label, TRUE)
             ELSE IF ~in_section
             THEN collect_nodes(Tail(lines), section_label, FALSE)
             ELSE IF line.type = "label" /\ line.text \in {"Filters:", "Streams:"}
             THEN <<>>
             ELSE parse_wpctl_status_node_line(line)
                    \o collect_nodes(Tail(lines), section_label, TRUE)

\* parse_wpctl_status_default_node_id on the text of the output
parse_wpctl_status_output(output, kind) ==
    default_node_id(collect_nodes(output, IF kind = "System" THEN "Sinks:" ELSE "Sources:",
                                  FALSE),
                    parse_wpctl_configured_default_name(output, kind))

\* resolve_wpctl_default_node_id, lines 461-474, for a `wpctl status -n` that
\* succeeded
resolve_wpctl_default_node_id(kind) ==
    /\ pwCall.pc = "status"
    /\ ~Resolved(kind)
    /\ targets' = Append(targets, [kind |-> kind,
                                   target |-> parse_wpctl_status_output(wpctl.status, kind)])
    /\ UNCHANGED <<exceptResolve, wpctl>>

(* ---------------- transcription pipeline (pipeline.rs) ----------------- *)
\* segments merged into one transcript at most
MaxSegments == 3
\* times are counted in quarters of a second, up to MaxTime
MaxTime == 3
\* the 0.5 of `gap < 0.5`, in quarters of a second
HalfSecond == 2

\* Option<String>: None, or the tag of a speaker
Speakers == {None, "S1"}
\* a String as the sequence of its characters; whisper.rs trims the text and
\* drops a segment whose text is empty
Texts == {<<"a">>, <<"b", "c">>}

\* TranscriptSegment (models.rs), the fields merge_segments reads or writes;
\* a span does not end before it starts
TranscriptSegments ==
    {seg \in [start_time : 0..MaxTime, end_time : 0..MaxTime, text : Texts,
              speaker : Speakers] : seg.start_time <= seg.end_time}

SegmentLists == UNION {[1..n -> TranscriptSegments] : n \in 0..MaxSegments}

\* the `for segment in iter` loop of merge_segments, lines 100-115
\* `cur` is the local `current` of the source
RECURSIVE merge_loop(_, _, _)
merge_loop(iter, cur, merged) ==
    IF iter = <<>>
    THEN Append(merged, cur)
    ELSE LET segment == Head(iter)
             gap == segment.start_time - cur.end_time
         IN  IF gap < HalfSecond /\ cur.speaker = segment.speaker
             THEN merge_loop(Tail(iter),
                             [cur EXCEPT !.end_time = segment.end_time,
                                             !.text = @ \o <<" ">> \o segment.text],
                             merged)
             ELSE merge_loop(Tail(iter), segment, Append(merged, cur))

\* merge_segments, lines 91-116
merge_segments(segments) ==
    IF segments = <<>>
    THEN segments
    ELSE merge_loop(Tail(segments), Head(segments), <<>>)

\* one call of merge_segments
merge_segments_call ==
    /\ pipeline.pc = "merge"
    /\ pipeline' = [pipeline EXCEPT !.pc = "merged", !.result = "ok",
                                    !.merged = merge_segments(pipeline.segments)]
    /\ UNCHANGED <<daemonAll, pipewireVars, resolveVars, encoderVars, mixer>>

\* windows of one transcription at most
MaxChunks == 3
\* chunk_samples, the 30 seconds of chunk_duration_secs, in quarters of a second
ChunkQuarters == 120

\* lengths of the loaded audio: whole and half windows
SampleLens == {k * (ChunkQuarters \div 2) : k \in 0..(2 * MaxChunks)}

\* samples.chunks(chunk_samples), line 50: the lengths of the chunks
chunks(samples_len) ==
    [i \in 1..((samples_len + ChunkQuarters - 1) \div ChunkQuarters) |->
        IF i * ChunkQuarters <= samples_len
        THEN ChunkQuarters
        ELSE samples_len - (i - 1) * ChunkQuarters]

\* what WhisperTranscriber::transcribe may return for a chunk of a length:
\* nothing, one segment, or two, with times counted from the chunk's start
ChunkSegments(len) ==
    {<<>>,
     <<[start_time |-> 0, end_time |-> len, text |-> <<"a">>, speaker |-> None]>>,
     <<[start_time |-> 0, end_time |-> 1, text |-> <<"a">>, speaker |-> None],
       [start_time |-> 1, end_time |-> len, text |-> <<"b", "c">>, speaker |-> None]>>}

\* lines 64-67: the timestamps are moved by the chunk's offset
Shifted(segments, offset_time) ==
    [k \in 1..Len(segments) |->
        [segments[k] EXCEPT !.start_time = @ + offset_time, !.end_time = @ + offset_time]]

\* transcribe, lines 37-51: load_audio and the split into chunks
transcribe_load ==
    /\ pipeline.pc = "load"
    /\ \/ pipeline' = [pipeline EXCEPT !.pc = "returned", !.result = "err"]
       \/ \E samples_len \in SampleLens :
            pipeline' = [pipeline EXCEPT !.pc = "chunks",
                                         !.chunks = chunks(samples_len)]
    /\ UNCHANGED <<daemonAll, pipewireVars, resolveVars, encoderVars, mixer>>

\* transcribe, lines 53-73: one iteration of the loop over the chunks; the
\* progress is reported before the chunk is transcribed
transcribe_chunk ==
    /\ pipeline.pc = "chunks"
    /\ pipeline.i < Len(pipeline.chunks)
    /\ LET total_chunks == Len(pipeline.chunks)
           chunk == pipeline.chunks[pipeline.i + 1]
           progress == WindowProgress(pipeline.i, total_chunks)
       IN  \/ pipeline' = [pipeline EXCEPT !.pc = "returned", !.result = "err",
                                           !.reported = Append(@, progress)]
           \/ \E segments \in ChunkSegments(chunk) :
                pipeline' = [pipeline EXCEPT
                    !.reported = Append(@, progress),
                    !.segments = @ \o Shifted(segments, pipeline.offset_time),
                    !.offset_time = @ + chunk,
                    !.i = @ + 1]
    /\ UNCHANGED <<daemonAll, pipewireVars, resolveVars, encoderVars, mixer>>

\* transcribe, lines 75-76: the final progress update; merge_segments follows
transcribe_final_progress ==
    /\ pipeline.pc = "chunks"
    /\ pipeline.i = Len(pipeline.chunks)
    /\ pipeline' = [pipeline EXCEPT !.pc = "merge", !.reported = Append(@, ProgressOne)]
    /\ UNCHANGED <<daemonAll, pipewireVars, resolveVars, encoderVars, mixer>>

(* --------------------------- mixer (mixer.rs) --------------------------- *)
\* samples of one buffer at most
MaxMixLen == 3
\* f32 samples in tenths: -1.0, 0.0 and 0.5
MixSamples == {-10, 0, 5}
\* mic_boost in tenths: 1.0 (the tests) and 1.2 (Default)
MicBoosts == {10, 12}
MixBuffers == UNION {[1..n -> MixSamples] : n \in 0..MaxMixLen}

\* the 0.5 of soft_clip, in hundredths
ClipKnee == 50

Abs(x) == IF x < 0 THEN -x ELSE x
Signum(x) == IF x < 0 THEN -1 ELSE 1

\* 1000 * tanh(t) for t = 0.2, 0.4, ..., 3.4, rounded
TanhTable ==
    <<197, 380, 537, 664, 762, 834, 885, 922, 947, 964, 976, 984, 989, 993, 995,
      997, 998>>

\* soft_clip, lines 121-127: the argument in hundredths, the result in
\* hundred-thousandths; 2.0 * (|sample| - 0.5) is a multiple of 0.2 here
soft_clip(sample) ==
    IF Abs(sample) <= ClipKnee
    THEN sample * 1000
    ELSE Signum(sample)
            * (ClipKnee * 1000 + ClipKnee * TanhTable[(Abs(sample) - ClipKnee) \div 10])

\* slice.get(i).copied().unwrap_or(0.0), with i counted from 1
GetOrSilence(buffer, i) == IF i <= Len(buffer) THEN buffer[i] ELSE 0

\* AudioMixer::mix, lines 43-57, with an output of a given length
MixedTo(len, mic_boost, system, mic) ==
    [i \in 1..len |->
        LET sys_sample == GetOrSilence(system, i) * 10
            mic_sample == GetOrSilence(mic, i) * mic_boost
        IN  soft_clip(sys_sample + mic_sample)]

\* line 44 with the shorter length in place of the longer
mix_to_shorter(mic_boost, system, mic) ==
    MixedTo(IF Len(system) < Len(mic) THEN Len(system) ELSE Len(mic), mic_boost, system, mic)

\* AudioMixer::mix
mix(mic_boost, system, mic) == MixedTo(Max(Len(system), Len(mic)), mic_boost, system, mic)

\* one call of mix on a mixer
mix_call ==
    /\ mixer.pc = "mix"
    /\ mixer' = [mixer EXCEPT !.pc = "mixed", !.result = "ok",
                              !.output = mix(mixer.mic_boost, mixer.system, mixer.mic)]
    /\ UNCHANGED <<daemonAll, pipewireVars, resolveVars, encoderVars, pipeline>>

(* ---------------------------- specification ---------------------------- *)
Next ==
    \/ Tick
    \/ run_write_pid
    \/ run_start_server
    \/ run_cleanup
    \/ \E c \in Conns, len \in FrameLens, req \in Requests : handle_connection_request(c, len, req)
    \/ \E c \in Conns, len \in FrameLens : handle_connection_invalid(c, len)
    \/ \E c \in Conns, len \in FrameLens : handle_connection_too_large(c, len)
    \/ \E c \in Conns : handle_connection_respond(c)
    \/ \E c \in Conns : handle_connection_handler_closed(c)
    \/ command_handler_recv
    \/ handle_start_recording
    \/ handle_stop_recording
    \/ handle_get_status
    \/ handle_ping
    \/ handle_shutdown
    \/ handle_transcribe_request
    \/ transcription_worker_poll
    \/ transcription_worker_fetch
    \/ transcription_worker_next
    \/ run_transcription_begin
    \/ run_transcription_store
    \/ run_transcription_compress
    \/ transcription_worker_revert
    \/ transcription_worker_mark_failed
    \/ \E t \in BagToSet(progressTasks) : progress_task_run(t)

Spec == Init /\ [][Next]_vars

\* `daemon start` without --foreground: start_daemon is about to be called,
\* no child exists yet, and the files of an earlier or of a running daemon
\* may be on disk.
LaunchInit ==
    /\ InitDaemon
    /\ InitAudio
    /\ runPc = "none"
    /\ pidFile \in {"none", "stale", "other"}
    /\ socketFile \in {"none", "stale"}
    /\ launcherPc = "check"

\* The launcher next to the child it spawns; clients of the child send
\* Shutdown, the one request that makes run() return.
LaunchNext ==
    \/ start_daemon_check
    \/ start_daemon_spawn
    \/ start_daemon_try_wait
    \/ start_daemon_check_pid
    \/ start_daemon_check_socket
    \/ run_write_pid
    \/ run_start_server
    \/ run_cleanup
    \/ \E c \in Conns, len \in FrameLens : handle_connection_request(c, len, SimpleReq("Shutdown"))
    \/ \E c \in Conns, len \in FrameLens : handle_connection_invalid(c, len)
    \/ \E c \in Conns : handle_connection_respond(c)
    \/ \E c \in Conns : handle_connection_handler_closed(c)
    \/ command_handler_recv
    \/ handle_shutdown

\* no daemon process takes part
NoDaemon ==
    /\ InitDaemon
    /\ storage = [i \in Ids |-> NoRow]
    /\ compress_to_ogg = TRUE
    /\ runPc = "none"
    /\ pidFile = "none"
    /\ socketFile = "none"
    /\ launcherPc = "none"

\* start_daemon is straight-line synchronous code in a process of its own:
\* each of its steps (file checks, spawn, try_wait, a 50 ms sleep) ends.
LaunchSpec == LaunchInit /\ [][LaunchNext]_vars /\ WF_vars(start_daemon)

TypeOK ==
    /\ daemonState.kind \in {"Idle", "Recording", "Transcribing"}
    /\ capturesRunning \in 0..2
    /\ consumerPc \in {"recv", "handling", "exited"}
    /\ Len(cmdQueue) <= NumConns

\* One PipeWireCapture, fresh from new() with either source enabled or not,
\* on which start() is called and, if it succeeded, stop().
CaptureInit ==
    /\ NoDaemon
    /\ InitPure
    /\ InitResolve
    /\ InitEncoder
    /\ pipewire \in {PipeWireCapture_new(sys, mic) : sys \in BOOLEAN, mic \in BOOLEAN}
    /\ pw_record = [r \in Recorders |-> NoProcess]
    /\ tracks = NoTracks
    /\ pwCall = [pc |-> "new", result |-> "none"]

CaptureNext ==
    \/ PipeWireCapture_start
    \/ \E r \in Recorders : pw_record_write(r)
    \/ \E r \in Recorders : pw_record_exit(r)
    \/ PipeWireCapture_stop
    \/ wait_for_process_system
    \/ wait_for_process_mic
    \/ PipeWireCapture_stop_mix

\* stop() is synchronous code: once entered it goes on whenever it can; the
\* recorders are other programs, and nothing makes them exit.
CaptureSpec ==
    CaptureInit /\ [][CaptureNext]_vars /\ WF_vars(PipeWireCapture_stop_continues)

\* resolve_capture_targets is called on a system where wpctl answers anything
ResolveInit ==
    /\ NoDaemon
    /\ InitPure
    /\ InitEncoder
    /\ pipewire \in {PipeWireCapture_new(sys, mic) : sys \in BOOLEAN, mic \in BOOLEAN}
    /\ pw_record = [r \in Recorders |-> NoProcess]
    /\ tracks = NoTracks
    /\ pwCall = [pc |-> "resolve", result |-> "none"]
    /\ \E sys \in WpctlAnswers("System"), mic \in WpctlAnswers("Microphone") :
            wpctl = [k \in TargetKinds |-> IF k = "System" THEN sys ELSE mic]
    /\ targets = <<>>

ResolveNext == \E k \in TargetKinds : capture_targets_with_resolver(k)

ResolveSpec == ResolveInit /\ [][ResolveNext]_vars

\* encode_and_cleanup is called on a path that may or may not hold a WAV
EncodeInit ==
    /\ NoDaemon
    /\ InitPure
    /\ InitPipeWire
    /\ InitResolve
    /\ wavFile \in WavFiles
    /\ oggFile = NoOgg
    /\ encoder = [pc |-> "encode", result |-> "none", encoded |-> FALSE, serial |-> 0,
                  packet_no |-> 0, granule_pos |-> 0, remaining |-> 0]

EncodeNext ==
    \/ encode_open
    \/ encode_frame
    \/ encode_flush
    \/ encode_and_cleanup

EncodeSpec == EncodeInit /\ [][EncodeNext]_vars

\* write_ogg_page is called once, with a payload of any length a packet can have
PageInit ==
    /\ NoDaemon
    /\ InitPure
    /\ InitPipeWire
    /\ InitResolve
    /\ wavFile = NoWav
    /\ oggFile = [exists |-> TRUE, pages |-> <<>>]
    /\ encoder \in {[pc |-> "page", result |-> "none", data_len |-> n] : n \in 0..MaxPacket}

PageNext == write_ogg_page_call

PageSpec == PageInit /\ [][PageNext]_vars

\* resolve_wpctl_default_node_id is called for either kind on one output
StatusInit ==
    /\ NoDaemon
    /\ InitPure
    /\ InitEncoder
    /\ pipewire = PipeWireCapture_new(TRUE, TRUE)
    /\ pw_record = [r \in Recorders |-> NoProcess]
    /\ tracks = NoTracks
    /\ pwCall = [pc |-> "status", result |-> "none"]
    /\ wpctl \in StatusAnswers
    /\ targets = <<>>

StatusNext == \E kind \in TargetKinds : resolve_wpctl_default_node_id(kind)

StatusSpec == StatusInit /\ [][StatusNext]_vars

\* merge_segments is called on any list of segments
MergeInit ==
    /\ NoDaemon
    /\ InitPipeWire
    /\ InitResolve
    /\ InitEncoder
    /\ mixer = NoCall
    /\ pipeline \in {[pc |-> "merge", result |-> "none", segments |-> l, merged |-> <<>>] :
                        l \in SegmentLists}

MergeNext == merge_segments_call

MergeSpec == MergeInit /\ [][MergeNext]_vars

\* transcribe is called once on an audio file
TranscribeInit ==
    /\ NoDaemon
    /\ InitPipeWire
    /\ InitResolve
    /\ InitEncoder
    /\ mixer = NoCall
    /\ pipeline = [pc |-> "load", result |-> "none", chunks |-> <<>>, i |-> 0,
                   offset_time |-> 0, segments |-> <<>>, reported |-> <<>>,
                   merged |-> <<>>]

TranscribeNext ==
    \/ transcribe_load
    \/ transcribe_chunk
    \/ transcribe_final_progress
    \/ merge_segments_call

TranscribeSpec == TranscribeInit /\ [][TranscribeNext]_vars

\* mix is called on a mixer with any boost and on any two buffers
MixInit ==
    /\ NoDaemon
    /\ InitPipeWire
    /\ InitResolve
    /\ InitEncoder
    /\ pipeline = NoCall
    /\ mixer \in {[pc |-> "mix", result |-> "none", mic_boost |-> b, system |-> sys,
                   mic |-> m, output |-> <<>>] :
                      b \in MicBoosts, sys \in MixBuffers, m \in MixBuffers}

MixNext == mix_call

MixSpec == MixInit /\ [][MixNext]_vars

\* The daemon keeps running: run() gets to serving, no client sends Shutdown
\* (clients start, stop and re-queue recordings), and the storage operations
\* of the worker succeed.
WorkerNext ==
    \/ Tick
    \/ run_write_pid /\ runPc' = "bind"
    \/ run_start_server /\ runPc' = "serving"
    \/ \E c \in Conns, len \in FrameLens, req \in Requests :
            /\ req.type \in {"StartRecording", "StopRecording", "Transcribe"}
            /\ handle_connection_request(c, len, req)
    \/ \E c \in Conns : handle_connection_respond(c)
    \/ command_handler_recv
    \/ handle_start_recording
    \/ handle_stop_recording
    \/ handle_transcribe_request
    \/ transcription_worker_poll
    \/ transcription_worker_fetch /\ workerPc' = "loop"
    \/ transcription_worker_next
    \/ run_transcription_begin
        /\ storage' = update_recording_state(storage, workerRec.id, "transcribing")
    \/ run_transcription_store /\ workerPc' = "compress"
    \/ run_transcription_compress
    \/ transcription_worker_revert
    \/ transcription_worker_mark_failed
        /\ storage' = update_recording_state(storage, workerRec.id, "failed")
    \/ \E t \in BagToSet(progressTasks) : progress_task_run(t)

\* what the worker does between two sleeps
transcription_worker ==
    \/ transcription_worker_fetch /\ workerPc' = "loop"
    \/ transcription_worker_next
    \/ run_transcription_begin
        /\ storage' = update_recording_state(storage, workerRec.id, "transcribing")
    \/ run_transcription_store /\ workerPc' = "compress"
    \/ run_transcription_compress
    \/ transcription_worker_revert
    \/ transcription_worker_mark_failed
        /\ storage' = update_recording_state(storage, workerRec.id, "failed")

\* The runtime keeps running run() and the worker task, whose steps all end
\* (a transcription is a finite computation); the worker wakes every 5 s, and
\* DaemonState is Idle at its polls whenever it is Idle again and again.
WorkerSpec ==
    /\ Init
    /\ [][WorkerNext]_vars
    /\ WF_vars(run_write_pid /\ runPc' = "bind")
    /\ WF_vars(run_start_server /\ runPc' = "serving")
    /\ WF_vars(transcription_worker)
    /\ SF_vars(transcription_worker_poll)

(* ------------------------------- claims -------------------------------- *)
\* the step in which the consumer finishes the command of type t
Handled(t) == Handling(t) /\ consumerPc' # "handling"
\* after the step, the response channel of the command's connection holds
\* exactly one response, and it is one of rs
RespondedIn(rs) == \E r \in rs : respCh'[current.conn] = <<r>>
Responded(r) == RespondedIn({r})

\* the worker is inside a transcription: it has switched DaemonState to
\* Transcribing and has not yet reverted it to Idle
InTranscription == workerPc \in {"run", "store", "compress", "revert"}

\* a capture backend started by a StartRecording that succeeded is running:
\* the consumer holds it and its session row is in lifecycle state Recording
RecordingCaptureRunning ==
    /\ audio_capture.held /\ capturesRunning > 0
    /\ RowExists(storage, audio_capture.path.stem)
    /\ storage[audio_capture.path.stem].state = "recording"

\* C1: no capture backend started by StartRecording is running while the
\* transcription worker is inside a transcription.
C1_RecordingExcludesTranscription == ~(RecordingCaptureRunning /\ InTranscription)

\* C2: a StartRecording processed while DaemonState is Transcribing fails with
\* AlreadyRecording, starts no capture backend, inserts no row and leaves
\* DaemonState unchanged.
C2_StartWhileTranscribingRejected ==
    [][(Handled("StartRecording") /\ daemonState.kind = "Transcribing")
        => /\ Responded(Error("Already recording"))
           /\ UNCHANGED <<daemonState, audio_capture, capturesRunning, storage>>]_vars

\* C3: DaemonState is written only by the command consumer while it processes
\* a command.
C3_OnlyConsumerWritesState ==
    [][daemonState' # daemonState => (consumerPc = "handling" /\ consumerPc' # "handling")]_vars

\* C4: at most one command is being processed at any time, commands are
\* processed in the order the channel delivered them (the n-th command
\* received is the n-th command sent), and every command received earlier has
\* its response sent before the next one is taken.
C4_CommandsSerialized ==
    /\ (consumerPc = "handling") <=> (current # NoCommand)
    /\ consumerPc = "handling" => current.seq = nRecv
    /\ \A i \in 1..Len(cmdQueue) : cmdQueue[i].seq = nRecv + i
    /\ \A c \in Conns :
          (consumerPc # "exited" /\ conn[c].pc = "sent" /\ respCh[c] = <<>>)
              => \/ current.conn = c
                 \/ \E i \in 1..Len(cmdQueue) : cmdQueue[i].conn = c

\* two connections have sent concurrently: one command is being processed,
\* the other waits in the channel
C4_Witness == consumerPc = "handling" /\ cmdQueue # <<>>

\* C5: a StartRecording processed while DaemonState is Recording returns the
\* AlreadyRecording error and changes neither DaemonState, the running capture
\* backend nor storage.
C5_StartWhileRecordingRejected ==
    [][(Handled("StartRecording") /\ daemonState.kind = "Recording")
        => /\ Responded(Error("Already recording"))
           /\ UNCHANGED <<daemonState, audio_capture, capturesRunning, storage>>]_vars

C5_Witness ==
    /\ daemonState.kind = "Recording"
    /\ audio_capture.held
    /\ \E c \in Conns : respCh[c] = <<Error("Already recording")>>

\* C6: a StopRecording processed while DaemonState is Idle or Transcribing
\* returns the NotRecording error and changes neither DaemonState, the capture
\* backend handle nor storage.
C6_StopWhileNotRecordingRejected ==
    [][(Handled("StopRecording") /\ daemonState.kind # "Recording")
        => /\ Responded(Error("Not recording"))
           /\ UNCHANGED <<daemonState, audio_capture, capturesRunning, storage>>]_vars

C6_Witness ==
    /\ daemonState.kind = "Transcribing"
    /\ \E c \in Conns : respCh[c] = <<Error("Not recording")>>

CaptureFailure ==
    {Error("Failed to start audio capture"), Error("Failed to initialize audio")}

\* C7: a StartRecording processed in Idle whose capture backend cannot be
\* constructed or started is answered with an Error, leaves DaemonState Idle,
\* inserts no row, and neither retains nor leaves running a capture backend.
C7_CaptureFailureCommitsNothing ==
    [][(Handled("StartRecording") /\ daemonState.kind = "Idle" /\ RespondedIn(CaptureFailure))
        => /\ daemonState' = Idle
           /\ UNCHANGED <<audio_capture, capturesRunning, storage>>]_vars

C7_Witness ==
    /\ daemonState.kind = "Idle"
    /\ audio_capture = NoCapture /\ capturesRunning = 0
    /\ \E c \in Conns, r \in CaptureFailure : respCh[c] = <<r>>

\* the step answers the current command with RecordingStarted
StartedId == respCh'[current.conn][1].id
RespondedStarted ==
    /\ respCh'[current.conn] # <<>>
    /\ respCh'[current.conn][1].type = "RecordingStarted"

\* first half of C8: what a successful StartRecording in Idle commits
StartCommitsSession ==
    (Handled("StartRecording") /\ daemonState.kind = "Idle" /\ RespondedStarted)
        => /\ ~RowExists(storage, StartedId)
           /\ storage' = [storage EXCEPT ![StartedId] =
                             [id |-> StartedId, title |-> current.req.title,
                              audio_path |-> WavPath(StartedId), duration_secs |-> NoDuration,
                              state |-> "recording", created_at |-> AsSecs(clock),
                              rowid |-> NextRowid(storage)]]
           /\ daemonState'.kind = "Recording"
           /\ daemonState'.recording.id = StartedId
           /\ daemonState'.recording.title = current.req.title
           /\ respCh'[current.conn] = <<RecordingStarted(StartedId)>>

\* second half of C8: the GetStatus processed right after it
StatusFollowsStart ==
    (Handled("GetStatus") /\ lastStarted # NoSession)
        => \E d \in 0..MaxClock :
              Responded(StatusResp([status |-> "Recording", id |-> lastStarted.id,
                                    title |-> lastStarted.title, duration_secs |-> d,
                                    audio_level |-> 0]))

\* C8: a successful StartRecording(title) in Idle inserts exactly one row
\* (state Recording, audio path derived from the new id), sets DaemonState to
\* Recording for it and returns Started with an id no earlier session has; the
\* GetStatus processed next reports Recording with that id and title.
C8_StartCommitsAndStatusReports == [][StartCommitsSession /\ StatusFollowsStart]_vars

\* C9: a StopRecording processed in Recording(s) ends with DaemonState Idle
\* and the capture backend released, leaves s's row either untouched or
\* Pending with the duration and audio path, and returns Stopped with s's id
\* and the whole seconds elapsed since the state became Recording.
C9_StopAlwaysCompletes ==
    [][(Handled("StopRecording") /\ daemonState.kind = "Recording")
        => LET id == daemonState.recording.id
               d == AsSecs(clock - daemonState.started_at)
           IN  /\ daemonState' = Idle
               /\ audio_capture' = NoCapture
               /\ capturesRunning' = 0
               /\ Responded(RecordingStopped(id, d))
               /\ \/ storage' = storage
                  \/ /\ RowExists(storage, id)
                     /\ storage' = [storage EXCEPT ![id] =
                                       [@ EXCEPT !.state = "pending", !.duration_secs = d,
                                                 !.audio_path = daemonState.audio_path]]]_vars

\* C10: processing Shutdown sends exactly one Ok and ends the consumer loop;
\* from then on no command is received or answered by the consumer, and
\* DaemonState and storage change only by steps of the worker or of a
\* progress task.
C10_ShutdownEndsConsumer ==
    [][/\ Handled("Shutdown")
          => /\ Responded(OkResp)
             /\ consumerPc' = "exited"
             /\ UNCHANGED <<daemonState, storage, cmdQueue>>
       /\ consumerPc = "exited"
          => /\ consumerPc' = "exited"
             /\ UNCHANGED <<nRecv, current, cmdQueue>>
             /\ \A c \in Conns : respCh'[c] = respCh[c] \/ respCh'[c] = <<>>
             /\ (daemonState' # daemonState \/ storage' # storage)
                   => (workerPc' # workerPc \/ progressTasks' # progressTasks)]_vars

\* the consumer has exited and a command queued behind the Shutdown is still
\* in the channel, unexecuted
C10_Witness ==
    /\ consumerPc = "exited"
    /\ cmdQueue # <<>>
    /\ \E c \in Conns : respCh[c] = <<OkResp>>

\* the first half of C8 taken alone: what a successful StartRecording commits
Part_StartCommitsSession == [][StartCommitsSession]_vars

\* connection c's handler reads a well-formed request frame in this step
RequestRead(c) == conn[c].pc = "read" /\ nSent' = nSent + 1 /\ conn'[c] # conn[c]

\* C11: on every connection each well-formed request that is read is answered
\* by one response on that connection before the next frame is read: reading a
\* request leaves the handler waiting for its response, and a handler that
\* waits for a response is not ended before it has written one - also for the
\* other connections while a Shutdown is processed.
C11_EveryRequestAnswered ==
    [][\A c \in Conns :
          /\ RequestRead(c) => conn'[c].pc = "sent"
          /\ conn[c].pc = "sent" => /\ runPc' # "returned"
                                    /\ conn'[c].pc \in {"sent", "read", "closed"}]_vars
\* connection c's handler answers a frame whose body does not deserialize
InvalidAnswered(c) == conn'[c].invalid = conn[c].invalid + 1

\* C12: a frame whose body does not deserialize is answered by the handler
\* itself with the Error, nothing is forwarded to the consumer (command
\* channel, DaemonState and storage unchanged) and the connection stays open,
\* ready to read the next frame.
C12_InvalidFrameRecoverable ==
    [][\A c \in Conns :
          InvalidAnswered(c)
              => /\ conn[c].pc = "read" /\ conn'[c].pc = "read"
                 /\ UNCHANGED <<daemonState, storage, audio_capture, cmdQueue, nSent, nRecv,
                                respCh, current>>
                 /\ \A d \in Conns \ {c} : conn'[d] = conn[d]]_vars

\* after an invalid frame, a well-formed request on the same connection has
\* been processed and its response is on the way
C12_Witness ==
    \E c \in Conns :
        /\ conn[c].invalid > 0 /\ conn[c].pc = "sent"
        /\ respCh[c] # <<>> /\ respCh[c][1].type # "Error"

\* C13: a length field above 1 MiB (and only such a length) makes the handler
\* drop the connection: no response is written, nothing is forwarded to the
\* consumer, DaemonState, storage and the other connections are unaffected.
C13_OversizeFrameDropsConnection ==
    [][\A c \in Conns :
          (conn'[c].pc = "dropped" /\ conn[c].pc # "dropped")
              => /\ conn[c].pc = "read"
                 /\ conn'[c].len > 1048576
                 /\ conn'[c].invalid = conn[c].invalid
                 /\ UNCHANGED <<daemonState, storage, audio_capture, cmdQueue, nSent, nRecv,
                                respCh, current>>
                 /\ \A d \in Conns \ {c} : conn'[d] = conn[d]]_vars

\* one connection was dropped for an oversized length field while another
\* one has a request answered
C13_Witness ==
    \E c, d \in Conns :
        /\ conn[c].pc = "dropped" /\ conn[c].len = MaxFrameLen + 1
        /\ conn[d].pc = "sent" /\ respCh[d] # <<>>
\* connection c has sent a GetStatus that is not answered yet
StatusWaiting(c) ==
    /\ conn[c].pc = "sent" /\ respCh[c] = <<>>
    /\ \E i \in 1..Len(cmdQueue) : cmdQueue[i].conn = c /\ cmdQueue[i].req.type = "GetStatus"

\* the consumer is inside handle_start_recording or handle_stop_recording
CommandInFlight ==
    consumerPc = "handling" /\ current.req.type \in {"StartRecording", "StopRecording"}

\* C14: a GetStatus does not have to wait for a StartRecording or
\* StopRecording that is still being processed: while that command is in
\* flight, a step that answers the waiting GetStatus can be taken.
C14_StatusNotBlockedByCommand ==
    \A c \in Conns :
        (StatusWaiting(c) /\ CommandInFlight) => ENABLED (Next /\ respCh'[c] # <<>>)
\* the worker's step after a failed run_transcription (lines 354-365)
FailureHandled == workerPc = "failed" /\ workerPc' = "loop"
\* the worker's step that ends a transcription (lines 348-352)
TranscriptionEnded == workerPc = "revert" /\ workerPc' \in {"failed", "loop"}
MarkedFailed(id) == [storage EXCEPT ![id].state = "failed"]

\* what C15 says apart from the storage update: the worker sets DaemonState
\* back to Idle when a transcription ends, a failed transcription is always
\* handled next, after it the worker goes on with the rest of its list, and
\* the worker ends only with the process
WorkerSurvivesFailure ==
    /\ TranscriptionEnded
          => /\ daemonState' = Idle
             /\ (workerResult = "err") <=> (workerPc' = "failed")
    /\ (workerResult' = "err" /\ workerResult = "ok") => workerPc' = "revert"
    /\ FailureHandled => UNCHANGED <<daemonState, pending>>
    /\ workerPc' = "dead" => runPc' = "returned"

\* C15: when the pipeline fails for a recording the worker marks exactly that
\* recording Failed in storage, changes no other row, sets DaemonState back to
\* Idle and goes on with the remaining recordings and later polls.
C15_FailureMarksThatRecording ==
    [][/\ WorkerSurvivesFailure
       /\ FailureHandled
             => /\ RowExists(storage, workerRec.id)
                /\ storage' = MarkedFailed(workerRec.id)]_vars

\* C15 as the code has it: the update to Failed may itself fail, which is
\* logged; then no row is changed.
C15_FailureMarksThatRecordingIfStored ==
    [][/\ WorkerSurvivesFailure
       /\ FailureHandled
             => /\ RowExists(storage, workerRec.id)
                /\ storage' \in {MarkedFailed(workerRec.id), storage}]_vars

\* one recording was marked Failed and the worker has gone on to transcribe
\* the next recording of the same pass
C15_Witness ==
    \E id \in Ids :
        /\ RowExists(storage, id) /\ storage[id].state = "failed"
        /\ workerPc = "run" /\ workerRec.id # id
        /\ RowExists(storage, workerRec.id)
\* the documented order of the lifecycle states
LifecycleNext ==
    {<<"recording", "pending">>, <<"pending", "transcribing">>,
     <<"transcribing", "completed">>, <<"transcribing", "failed">>}

\* C16: the stored lifecycle state of a session changes only along
\* Recording -> Pending -> Transcribing -> Completed or Failed, except that a
\* Transcribe command may reset it to Pending; a new row starts as Recording.
C16_LifecycleOrder ==
    [][\A id \in Ids :
          storage'[id] # storage[id]
              => IF ~RowExists(storage, id)
                 THEN storage'[id].state = "recording"
                 ELSE \/ storage'[id].state = storage[id].state
                      \/ <<storage[id].state, storage'[id].state>> \in LifecycleNext
                      \/ Handled("Transcribe") /\ storage'[id].state = "pending"]_vars
\* the worker takes the next recording of its list and starts transcribing it
TranscriptionStarted == workerPc # "run" /\ workerPc' = "run"

\* C17: within a worker pass recordings are transcribed one at a time and in
\* the order of their creation: a transcription starts only when the previous
\* one is finished, and the recording being transcribed was created (inserted)
\* before every recording still waiting in the pass.
C17_PendingProcessedFifo ==
    [][TranscriptionStarted
          => /\ workerPc = "loop" /\ workerRec = NoRecording
             /\ \A i \in 1..Len(pending') : workerRec'.rowid < pending'[i].rowid]_vars
\* the Error responses of handle_transcribe_request
TranscribeErrors ==
    {Error("Database error"), Error("Recording not found"),
     Error("Failed to queue transcription")}

\* C18: Transcribe(id) re-queues exactly the recording that id identifies (the
\* one recording whose id begins with it): it sets that row's state to Pending
\* and returns Ok, or returns an Error and changes nothing when storage fails;
\* when id identifies no recording it returns an Error and changes nothing.
\* No other row and not DaemonState is changed.
C18_TranscribeRequeuesThatRecording ==
    [][Handled("Transcribe")
          => LET found == find_recording_by_prefix(storage, current.req.recording_id)
             IN  /\ UNCHANGED <<daemonState, audio_capture, capturesRunning>>
                 /\ \/ RespondedIn(TranscribeErrors) /\ UNCHANGED storage
                    \/ /\ Cardinality(found) = 1
                       /\ Responded(OkResp)
                       /\ \E id \in found :
                             storage' = [storage EXCEPT ![id].state = "pending"]]_vars
\* C19: whenever run() has returned, after a Shutdown or after a failed
\* startup, neither the PID file nor the socket file of this daemon is left.
C19_FilesCleanedOnExit ==
    runPc = "returned" => (pidFile # "daemon" /\ socketFile # "daemon")

\* the state in which line 60 finds the socket file justifies a success: the
\* child bound the socket and is serving (its PID file was written before),
\* or a socket file that could not be removed was there all along and the
\* child, alive at that moment, wrote its PID file next to it
ReadinessObserved ==
    \/ runPc = "serving" /\ pidFile = "daemon" /\ socketFile = "daemon"
    \/ runPc \in {"bind", "returned"} /\ pidFile = "daemon" /\ socketFile = "stale"

LauncherOutcomes ==
    /\ launcherPc = "child_exited" => runPc = "returned" /\ exitStatus # "none"
    /\ launcherPc = "timed_out" => polls = MaxPolls /\ runPc # "none"
    /\ launcherPc \in {"started", "child_exited"} => polls < MaxPolls

StopEntered == pwCall.pc \in {"wait_system", "wait_mic", "mix"}
OnlyGracefulSignals == \A r \in Recorders : pw_record[r].signal \in {"none", "SIGTERM"}

\* C21: stop() only ever sends SIGTERM to a recorder, and once entered it
\* returns, whether or not the recorders exit after the signal.
C21_StopTerminates ==
    /\ []OnlyGracefulSignals
    /\ StopEntered ~> pwCall.pc = "stopped"

DualSource == pipewire.capture_system /\ pipewire.capture_microphone
\* the step of start() in which the system recorder was launched and the
\* microphone recorder was not
MicLaunchFailed ==
    /\ pwCall.pc = "new"
    /\ DualSource
    /\ pw_record'["system"].state = "running"
    /\ pw_record'["microphone"].state = "none"

\* C22: in a dual-source start whose system recorder launches and whose
\* microphone recorder does not, start() returns Ok (so StartRecording does
\* not answer "Failed to start audio capture"), the system recorder is held
\* and running, and no microphone process or path is stored.
C22_MicFailureDegrades ==
    [][MicLaunchFailed =>
        /\ pwCall' = [pc |-> "started", result |-> "Ok"]
        /\ pipewire'.system_process = "system"
        /\ pipewire'.mic_process = None
        /\ pipewire'.mic_path = None
        /\ pipewire'.recording]_vars

C22_Witness ==
    /\ pwCall.pc = "started"
    /\ DualSource
    /\ pipewire.system_process = "system"
    /\ pipewire.mic_process = None
    /\ pw_record["system"].state = "running"
    /\ tracks.output > WavHeader

\* the step in which stop() of a dual-source capture returns
DualStopReturns == pwCall.pc = "mix" /\ pwCall'.pc = "stopped" /\ DualSource

\* C23: when stop() of the dual-source backend returns, no recorder is held,
\* the microphone file is gone, the system track has the microphone track
\* mixed in exactly if the microphone file existed with more than 44 bytes,
\* is unchanged otherwise, and the result is Ok.
C23_StopMixesAndCleansUp ==
    [][DualStopReturns =>
        /\ pipewire'.system_process = None /\ pipewire'.mic_process = None
        /\ tracks'.mic = NoFile
        /\ tracks'.mixed <=> (tracks.mic # NoFile /\ tracks.mic > WavHeader)
        /\ ~tracks'.mixed => tracks'.output = tracks.output
        /\ pwCall'.result = "Ok"]_vars

StaticAlias(k) == IF k = "System" THEN SYSTEM_TARGET_FALLBACK ELSE MICROPHONE_TARGET_FALLBACK

\* the step of the chain, as the specification numbers them, that the answers
\* of wpctl for kind k select
ChainStep(k) ==
    LET nodes == wpctl[k].nodes
    IN  IF wpctl[k].inspect # <<>> THEN "inspect"
        ELSE IF \E i \in DOMAIN nodes : nodes[i].is_default THEN "default"
        ELSE IF \E i \in DOMAIN nodes : wpctl[k].configured = <<nodes[i].name>>
        THEN "configured"
        ELSE "alias"

ChainTarget(k) ==
    LET nodes == wpctl[k].nodes
    IN  CASE ChainStep(k) = "inspect" -> wpctl[k].inspect[1]
          [] ChainStep(k) = "default" ->
                nodes[Min({i \in DOMAIN nodes : nodes[i].is_default})].id
          [] ChainStep(k) = "configured" ->
                nodes[Min({i \in DOMAIN nodes : wpctl[k].configured = <<nodes[i].name>>})].id
          [] OTHER -> StaticAlias(k)

\* C24: every resolved target is the result of the first step that succeeds
\* in the chain inspect, default-flagged device, device named like the
\* configured default, static alias; a listing without default flag and
\* without matching name resolves to the static alias.
C24_ResolutionFollowsChain ==
    \A i \in DOMAIN targets : targets[i].target = ChainTarget(targets[i].kind)

\* C25: the method tag of a resolved target tells which step produced it: the
\* static alias, and nothing else, carries the fallback tag, and a target
\* taken from the default-flagged device never carries the same tag as one
\* found through the configured default name.
C25_MethodTagsTellStepsApart ==
    \A i, j \in DOMAIN targets :
        LET si == ChainStep(targets[i].kind)
            sj == ChainStep(targets[j].kind)
        IN  /\ targets[i].method = "FallbackAlias"
                    <=> targets[i].target = StaticAlias(targets[i].kind)
            /\ (si = "default" /\ sj = "configured")
                    => targets[i].method # targets[j].method

\* C26: encode_and_cleanup changes the source WAV only by removing it after
\* encode returned Ok and the OGG output exists with non-zero size, and then
\* returns Ok; whenever it returns an error the WAV is as it was.
C26_SourceKeptUntilOutputVerified ==
    [][wavFile' # wavFile =>
        /\ encoder.encoded
        /\ oggFile.exists /\ OggSize(oggFile.pages) > 0
        /\ ~wavFile'.exists
        /\ encoder'.result = "Ok"]_vars

C26_Witness ==
    /\ encoder.pc = "returned" /\ encoder.result = "Ok"
    /\ ~wavFile.exists
    /\ oggFile.exists /\ Len(oggFile.pages) > 2

EndOfStreamPages(pages) == {i \in DOMAIN pages : pages[i].header_type = 4}

\* C27: in the stream of every encode that returned Ok exactly one page
\* carries the end-of-stream flag, and it is the last page.
C27_OneEndOfStreamPage ==
    (encoder.pc \in {"verify", "returned"} /\ encoder.encoded)
        => EndOfStreamPages(oggFile.pages) = {Len(oggFile.pages)}

\* C28: the segment table of every page ends with an entry below 255; for a
\* payload whose length is a multiple of 255 that entry is 0, so that the
\* empty payload has the table <<0>>.
C28_TableEndsWithShortLane ==
    \A i \in DOMAIN oggFile.pages :
        LET table == oggFile.pages[i].segments
        IN  /\ table # <<>>
            /\ table[Len(table)] < LaneSize
            /\ oggFile.pages[i].len = 0 => table = <<0>>

CeilDiv(a, b) == IF a % b = 0 THEN a \div b ELSE a \div b + 1
RECURSIVE Sum(_)
Sum(seq) == IF seq = <<>> THEN 0 ELSE seq[1] + Sum(Tail(seq))

\* C29: for every payload length the segment count written is
\* ceil(len / 255), the table has that many entries, each at most 255, and
\* they sum to the payload length.
C29_SegmentCountAndSum ==
    \A i \in DOMAIN oggFile.pages :
        LET page == oggFile.pages[i]
        IN  /\ page.segment_count = CeilDiv(page.len, LaneSize)
            /\ Len(page.segments) = page.segment_count
            /\ \A j \in DOMAIN page.segments : page.segments[j] \in 0..LaneSize
            /\ Sum(page.segments) = page.len

C29_Witness ==
    /\ encoder.pc = "returned"
    /\ \E i \in DOMAIN oggFile.pages :
        /\ oggFile.pages[i].len = MaxPacket
        /\ oggFile.pages[i].segment_count = 16
        /\ oggFile.pages[i].segments[16] = 175

\* C30: the pages written by one encode are numbered 0, 1, 2, ... in order,
\* all carry one serial, the two header pages have granule position 0, and
\* each audio page has the granule position of the page before it plus one
\* frame (sample_rate / 50 samples per channel).
C30_PageSequenceAndGranule ==
    LET pages == oggFile.pages
    IN  \A i \in DOMAIN pages :
            /\ pages[i].page_no = i - 1
            /\ pages[i].serial = pages[1].serial
            /\ i <= 2 => pages[i].granule_pos = 0
            /\ i > 2 => pages[i].granule_pos
                            = pages[i - 1].granule_pos + wavFile.sample_rate \div FramesPerSec

C30_Witness ==
    /\ encoder.pc = "verify"
    /\ Len(oggFile.pages) = 2 + MaxFrames
    /\ oggFile.pages[Len(oggFile.pages)].header_type = 4

(* C31 *)
\* what the statement asks of one merge: the text follows a single space and
\* the end time is extended, never made smaller
MergedSpan(cur, segment) ==
    [cur EXCEPT !.end_time = Max(cur.end_time, segment.end_time),
                    !.text = @ \o <<" ">> \o segment.text]

\* a span is merged exactly when the gap is under half a second and the tags
\* are equal
MergesInto(cur, segment) ==
    /\ segment.start_time - cur.end_time < HalfSecond
    /\ cur.speaker = segment.speaker

RECURSIVE StatedMerge(_, _)
StatedMerge(segments, cur) ==
    IF segments = <<>>
    THEN <<cur>>
    ELSE IF MergesInto(cur, Head(segments))
         THEN StatedMerge(Tail(segments), MergedSpan(cur, Head(segments)))
         ELSE <<cur>> \o StatedMerge(Tail(segments), Head(segments))

\* C31: for every input list, merge_segments returns the spans in input order,
\* a span merged into the current one exactly when its start minus the
\* current end is under 0.5 s and the speaker tags are equal; a merge appends
\* the text after a single space and extends the end time, which never gets
\* smaller; otherwise the current span is emitted unchanged.
C31_MergeFollowsStatement ==
    pipeline.pc = "merged" =>
        pipeline.merged =
            IF pipeline.segments = <<>>
            THEN <<>>
            ELSE StatedMerge(Tail(pipeline.segments), Head(pipeline.segments))

(* C32 *)
\* p < q and p <= q on fractions with positive denominators
Less(p, q) == p.num * q.den < q.num * p.den
AtMost(p, q) == p.num * q.den <= q.num * p.den

\* the merge pass has been reached
MergePassReached == pipeline.pc \in {"merge", "merged"}

\* C32: during one transcription the progress callback is invoked once per
\* window and, when every window is transcribed, once more before the single
\* merge pass; every reported value lies in [0.0, 1.0], the values are
\* strictly increasing and the last one is 1.0.
C32_ProgressPerWindowThenOne ==
    pipeline.pc \in {"chunks", "merge", "merged", "returned"} =>
        LET reported == pipeline.reported
            total_chunks == Len(pipeline.chunks)
        IN  /\ \A k \in 1..Len(reported) :
                    AtMost(ProgressZero, reported[k]) /\ AtMost(reported[k], ProgressOne)
            /\ \A k \in 1..(Len(reported) - 1) : Less(reported[k], reported[k + 1])
            /\ pipeline.pc = "chunks" => Len(reported) = pipeline.i
            /\ pipeline.pc = "returned" /\ Len(pipeline.chunks) > 0 =>
                    Len(reported) = pipeline.i + 1
            /\ MergePassReached =>
                    /\ Len(reported) = total_chunks + 1
                    /\ reported[Len(reported)] = ProgressOne

\* a transcription of the largest number of windows has got through its merge
C32_Witness ==
    /\ pipeline.pc = "merged"
    /\ pipeline.result = "ok"
    /\ Len(pipeline.chunks) = MaxChunks
    /\ Len(pipeline.reported) = MaxChunks + 1

(* C33 *)
\* a buffer of n samples of silence
Silence(n) == [i \in 1..n |-> 0]

\* C33: mix(system, mic) returns exactly max(len(system), len(mic)) samples,
\* and an output sample at an index beyond the end of the shorter input is
\* what the longer input's sample at that index gives with silence: it is the
\* same whatever the shorter input holds.
C33_MixLengthAndTail ==
    mixer.pc = "mixed" =>
        LET system == mixer.system
            mic == mixer.mic
            output == mixer.output
        IN  /\ Len(output) = Max(Len(system), Len(mic))
            /\ \A i \in 1..Len(output) :
                /\ i > Len(system) =>
                    /\ output[i] = mix(mixer.mic_boost, Silence(i), mic)[i]
                    /\ \A other \in MixBuffers :
                            Len(other) < i => mix(mixer.mic_boost, other, mic)[i] = output[i]
                /\ i > Len(mic) =>
                    /\ output[i] = mix(mixer.mic_boost, system, Silence(i))[i]
                    /\ \A other \in MixBuffers :
                            Len(other) < i => mix(mixer.mic_boost, system, other)[i] = output[i]

\* buffers of different lengths have been mixed, the longer one loud enough
\* to be clipped beyond the end of the shorter
C33_Witness ==
    /\ mixer.pc = "mixed"
    /\ Len(mixer.system) = 1
    /\ Len(mixer.mic) = MaxMixLen
    /\ Len(mixer.output) = MaxMixLen
    /\ mixer.mic[MaxMixLen] = -10
    /\ mixer.mic_boost = 12

(* C34 *)
\* C34: once DaemonState is Recording for a session it stays Recording for
\* that session until a StopRecording command is processed; no step of the
\* transcription worker (its switch to Transcribing, its revert to Idle)
\* overwrites an active recording.
C34_RecordingHeldUntilStop ==
    [][(daemonState.kind = "Recording" /\ daemonState' # daemonState)
        => Handled("StopRecording")]_vars

(* C35 *)
\* C35: between commands the command consumer holds a started capture backend
\* if and only if DaemonState is Recording; a StartRecording or StopRecording
\* that ends with an error leaves the two in step.
C35_CaptureHeldIffRecording ==
    [][(Handled("StartRecording") \/ Handled("StopRecording"))
        => (audio_capture'.held <=> daemonState'.kind = "Recording")]_vars

(* C36 *)
\* the step applies a progress update spawned by the transcription of id
AppliesProgressOf(id) ==
    \E t \in BagToSet(progressTasks) :
        /\ t.from = id
        /\ progressTasks' = progressTasks (-) SetToBag({t})
        /\ daemonState'.progress = t.progress

\* C36: the progress held in DaemonState Transcribing{id} only ever comes from
\* progress callbacks of the transcription of that same id and never
\* decreases while that transcription runs.
C36_ProgressOfThisTranscription ==
    [][(/\ daemonState.kind = "Transcribing"
        /\ daemonState'.kind = "Transcribing"
        /\ daemonState' # daemonState)
        => /\ daemonState'.recording_id = daemonState.recording_id
           /\ AppliesProgressOf(daemonState.recording_id)
           /\ AtMost(daemonState.progress, daemonState'.progress)]_vars

(* C37 *)
LifecycleIn(id, states) == RowExists(storage, id) /\ storage[id].state \in states

PathBecomesOgg(id) ==
    /\ RowExists(storage, id)
    /\ storage[id].audio_path.ext # "ogg"
    /\ storage'[id].audio_path.ext = "ogg"

\* the step of the worker that follows the storing of a transcription: the
\* compression, if any, of the recording's audio (the worker may also be ended
\* there by the exit of the daemon)
CompressionStep == workerPc = "compress" /\ workerPc' = "revert"

\* C38: audio is compressed to OGG only after the recording's transcription
\* has been stored and its state set to Completed, and only when compression
\* is enabled and the audio path has a .wav extension; the stored audio path
\* is then replaced by the .ogg path; a compression failure is only logged,
\* the recording stays Completed and is not marked Failed.
C38_CompressOnlyAfterCompleted ==
    [][/\ \A id \in Ids :
            PathBecomesOgg(id) =>
                /\ CompressionStep
                /\ workerRec.id = id
                /\ compress_to_ogg
                /\ workerRec.audio_path.ext = "wav"
                /\ storage'[id] = [storage[id] EXCEPT
                                      !.audio_path = [workerRec.audio_path EXCEPT !.ext = "ogg"]]
       /\ (workerPc # "compress" /\ workerPc' = "compress") =>
            /\ workerPc = "store"
            /\ RowExists(storage', workerRec.id) =>
                    storage'[workerRec.id].state = "completed"
       /\ CompressionStep =>
            /\ \A id \in Ids :
                    RowExists(storage, id) => storage'[id].state = storage[id].state
            /\ workerResult' = "ok"
       /\ (workerPc = "revert" /\ workerResult = "ok") => workerPc' # "failed"]_vars

\* a completed recording whose stored audio path has been replaced by the
\* .ogg path
C38_Witness ==
    \E id \in Ids :
        /\ LifecycleIn(id, {"completed"})
        /\ storage[id].audio_path = [stem |-> id, ext |-> "ogg"]
        /\ workerPc = "revert"
        /\ workerRec.id = id

(* C39 *)
\* the worker is about to transcribe a recording that has stored audio
AboutToTranscribe ==
    /\ workerPc = "run"
    /\ workerRec.audio_path # NoPath

\* run_transcription can get through the pipeline and go on to store the
\* transcript
TranscriptionCanSucceed == ENABLED (run_transcription_begin /\ workerPc' = "store")

\* C39: a recording that reached Completed, also one whose WAV was replaced
\* by an OGG file by the compression after its transcription, can be
\* re-queued with Transcribe and transcribed again to Completed: whenever the
\* worker takes up a recording with stored audio, its transcription can
\* succeed.
C39_RequeuedCanBeTranscribed == AboutToTranscribe => TranscriptionCanSucceed

(* C40 *)
\* the ids of the devices the output lists in the section of a kind
ListedIds(kind) ==
    LET listed == IF kind = "System" THEN wpctl.sinks ELSE wpctl.sources
    IN  {listed[i].id : i \in DOMAIN listed}

\* C40: resolution from the device listing stays inside the requested
\* category: for kind System it only ever returns the id of a device listed
\* in the Sinks section, for kind Microphone only the id of a device listed in
\* the Sources section.
C40_ResolutionStaysInCategory ==
    \A i \in DOMAIN targets :
        targets[i].target # <<>> => targets[i].target[1] \in ListedIds(targets[i].kind)

====
